---- MODULE Spec2Model ----
(***************************************************************************)
(* State-machine model of the ROKU 1PTV Repair single-page application:    *)
(* the IndexedDB-backed record store (useIndexedDB), the Intake and Repair *)
(* forms that append to it, and the History lookup (list, combinedRec,     *)
(* exportCsv) computed from it.                                            *)
(*                                                                         *)
(* Strings the code trims or compares (serials, the History query) are     *)
(* sequences of one-character strings, so that String.prototype.trim is    *)
(* modelled by what it does.  Timestamps are integers: the ISO strings the *)
(* code stores are compared through new Date(..).getTime().  The clock is   *)
(* logical: it reads 1 at mount and one more after every saved record, and *)
(* records of earlier sessions carry time 0.  This yields every order and  *)
(* every tie among the timestamps of a session's records that real time    *)
(* can produce.                                                            *)
(*                                                                         *)
(* Asynchrony.  Each IndexedDB callback is one step.  The platform orders  *)
(* them: open requests on one database are served first-in first-out, and  *)
(* a transaction on the object store 'data' starts only after every        *)
(* earlier conflicting transaction on it has finished.  So the requests    *)
(* the effects issue are served in the order the effects ran (reqQ): a put *)
(* takes effect after the get issued before it has called back, and puts   *)
(* take effect in issue order.  A put stores the `data` its effect closed  *)
(* over, not the data current at callback time.  User events interleave    *)
(* freely with the callbacks.                                              *)
(*                                                                         *)
(* Outputs.  alert and csv hold what the latest step showed or downloaded  *)
(* ("none" / None when it produced nothing).                               *)
(***************************************************************************)
EXTENDS Integers, Sequences, FiniteSets, TLC

\* ---------------------------------------------------------------- bounds
\* records saved in one session
MaxAppends == 2
\* wrong pass-keys counted in one Admin panel
MaxTries == 2

\* ------------------------------------------------------- inputs and names
Keys == {"intakes", "repairs"}
Tabs == {"intake", "repair", "history"}
\* an optional value (undefined, null, no entry) is a sequence of length <= 1
None == <<>>
Some(x) == <<x>>
ValueOf(o) == o[1]
\* formCreatedAt while no IntakeForm is mounted
NoTime == -1
\* what an operator can type as a serial (the empty string included)
SerialInputs == {<<>>, <<"a">>, <<" ", "a">>}
\* what an operator can type into the History search box
QueryInputs == SerialInputs \cup {<<" ">>}

VARIABLES
  idb,            \* 'indexedDB' in window
  persisted,      \* object store 'data': key -> optional stored array
  stored0,        \* history: persisted as it was at mount
  data,           \* useIndexedDB state of each key (intakes, repairs)
  loadSt,         \* outcome of each key's load effect
  reqQ,           \* IndexedDB requests issued by the effects, in issue order
  getting,        \* the load at the head of reqQ has issued its get
  appended,       \* history: records appended to each key since mount
  tab,            \* App tab
  now,            \* clock
  formCreatedAt,  \* IntakeForm v.createdAt (NoTime while not mounted)
  formStartAt,    \* RepairForm startAt as pre-filled (NoTime while not mounted)
  q,              \* History q
  alert,          \* alert shown by the latest step
  csv,            \* rows of the CSV downloaded by the latest step
  invalid,        \* field the browser reported invalid in the latest step
  actions,        \* RepairForm actions, the value of its UiMultiCombo
  choice,         \* UiMultiCombo choice
  custom,         \* UiMultiCombo custom
  props,          \* Dashboard: its intakes and repairs and the clock it reads
  kpi,            \* Dashboard: the figures of the latest render
  dlRows,         \* downloadCSV: the rows it is called with
  dlText,         \* downloadCSV: the text of the file it made
  ls,             \* localStorage: list name -> optional text
  lists,          \* App sizes, sources, reasons
  startup,        \* history: the entries the latest startup read, its lists
  authorized,     \* AdminPanel authorized
  inputKey,       \* AdminPanel inputKey
  szText,         \* AdminPanel szText
  srcText,        \* AdminPanel srcText
  reaText,        \* AdminPanel reaText
  wrongTries,     \* history: wrong keys entered in this panel, up to MaxTries
  checklist,      \* IntakeForm v.checklist
  held,           \* history: serials whose Intake was saved with the hold alert
  codeValue,      \* RepairForm failureCode, the value of its UiCombo
  isCustom,       \* UiCombo isCustom
  conn,           \* local proxy: the state of each request
  saves,          \* cloud saves: the state of each call
  bucket,         \* Firebase Storage: the uploads completed
  docs,           \* Firestore: the documents written
  sending,        \* Flow repair form: sending
  msg,            \* Flow repair form: msg
  fields,         \* Flow repair form: its inputs, blank or filled
  subs            \* Flow repair form: the calls of onSubmit

comboVars == <<actions, choice, custom>>
dashVars == <<props, kpi>>
csvVars == <<dlRows, dlText>>
listVars == <<ls, lists, startup>>
panelVars == <<authorized, inputKey, szText, srcText, reaText, wrongTries>>
holdVars == <<checklist, held>>
codeVars == <<codeValue, isCustom>>
cloudVars == <<saves, bucket, docs>>
flowVars == <<sending, msg, fields, subs>>
\* the programs apart from the App
apartVars == <<conn, cloudVars, flowVars>>
\* what no step of the record store, the forms or the History tab changes
otherVars == <<listVars, apartVars>>

vars == <<idb, persisted, stored0, data, loadSt, reqQ, getting, appended,
          tab, now, formCreatedAt, formStartAt, q, alert, csv, invalid,
          actions, choice, custom, props, kpi, dlRows, dlText,
          listVars, panelVars, holdVars, codeVars, apartVars>>

\* ------------------------------------------------------- pure functions
RECURSIVE TrimStart(_)
TrimStart(s) ==
  IF s = <<>> THEN s
  ELSE IF Head(s) = " " THEN TrimStart(Tail(s)) ELSE s

RECURSIVE TrimEnd(_)
TrimEnd(s) ==
  IF s = <<>> THEN s
  ELSE IF s[Len(s)] = " " THEN TrimEnd(SubSeq(s, 1, Len(s) - 1)) ELSE s

\* a trim that strips nothing
TrimNothing(s) == s

\* String.prototype.trim
Trim(s) == TrimEnd(TrimStart(s))

\* Array.prototype.sort with comparator key(x) - key(y), where key[i] is the
\* key of s[i]: ascending, stable
StableSort(s, key) ==
  LET pos(i) == 1 + Cardinality({j \in 1..Len(s) :
                     \/ key[j] < key[i]
                     \/ key[j] = key[i] /\ j < i})
  IN [p \in 1..Len(s) |-> s[CHOOSE i \in 1..Len(s) : pos(i) = p]]

\* intakes.filter(i => i.serial === serial), repairs.filter(...)
BySerial(s, serial) == SelectSeq(s, LAMBDA r : r.serial = serial)

IntakeRow(i) == [type |-> "intake", when |-> i.createdAt, data |-> i]
RepairRow(r) == [type |-> "repair", when |-> r.startAt, data |-> r]
\* .map(i => ({type: 'intake', ...})), .map(r => ({type: 'repair', ...}))
IntakeRows(s) == [i \in 1..Len(s) |-> IntakeRow(s[i])]
RepairRows(s) == [i \in 1..Len(s) |-> RepairRow(s[i])]
\* new Date(x.when).getTime(), new Date(a.startAt).getTime()
RowWhens(rows) == [i \in 1..Len(rows) |-> rows[i].when]
RepairStarts(reps) == [i \in 1..Len(reps) |-> reps[i].startAt]
\* [].concat(a).concat(b)
ListRows(intakes, repairs, serial) ==
  IntakeRows(BySerial(intakes, serial)) \o RepairRows(BySerial(repairs, serial))

\* the list without its trailing sort
HistoryListUnsorted(query, intakes, repairs) ==
  LET serial == Trim(query)
  IN IF serial = <<>> THEN <<>> ELSE ListRows(intakes, repairs, serial)

\* History.list
HistoryList(query, intakes, repairs) ==
  LET serial == Trim(query)
  IN IF serial = <<>> THEN <<>>
     ELSE StableSort(ListRows(intakes, repairs, serial),
                     RowWhens(ListRows(intakes, repairs, serial)))

\* find without the reverse: the first matching intake
FirstIntake(intakes, serial) ==
  LET m == BySerial(intakes, serial)
  IN IF m = <<>> THEN None ELSE Some(m[1])

\* intakes.slice().reverse().find(i => i.serial === serial)
LastIntake(intakes, serial) ==
  LET m == BySerial(intakes, serial)
  IN IF m = <<>> THEN None ELSE Some(m[Len(m)])

\* History.combinedRec (null and a missing intake are None)
CombinedRec(query, intakes, repairs) ==
  LET serial == Trim(query)
  IN IF serial = <<>> THEN None
     ELSE Some([serial |-> serial,
                intake |-> LastIntake(intakes, serial),
                repairs |-> StableSort(BySerial(repairs, serial),
                                       RepairStarts(BySerial(repairs, serial)))])

IntakeCsvRow(i) == [kind |-> "intake", serial |-> i.serial, createdAt |-> i.createdAt]
RepairCsvRow(r) == [kind |-> "repair", serial |-> r.serial, startAt |-> r.startAt]

\* the rows History.exportCsv hands to downloadCSV
ExportRows(intakes, repairs) ==
  [i \in 1..Len(intakes) |-> IntakeCsvRow(intakes[i])]
    \o [i \in 1..Len(repairs) |-> RepairCsvRow(repairs[i])]

\* ------------------------------------------------------------ initial state
\* ------------------------------------------- Number (IEEE 754 binary64)
\* A positive Number is mant * 2^exp with mant a sequence of Precision bits,
\* most significant first and leading bit 1; zero has no bits.  Only what
\* yieldPct uses is modelled: the quotient of two counts, its product with
\* an integer literal, and Math.round of a value below 2^Precision.
Precision == 53
Zero == [mant |-> <<>>, exp |-> 0]

RECURSIVE Pow2(_)
Pow2(n) == IF n = 0 THEN 1 ELSE 2 * Pow2(n - 1)

Reverse(s) == [i \in 1..Len(s) |-> s[Len(s) + 1 - i]]

RECURSIVE BitsToInt(_)
BitsToInt(bits) ==
  IF bits = <<>> THEN 0 ELSE 2 * BitsToInt(SubSeq(bits, 1, Len(bits) - 1)) + bits[Len(bits)]

\* the bits of a natural number, least significant first
RECURSIVE IntToBitsLsb(_)
IntToBitsLsb(n) == IF n = 0 THEN <<>> ELSE <<n % 2>> \o IntToBitsLsb(n \div 2)

\* bits (least significant first) plus carry
RECURSIVE AddCarryLsb(_, _)
AddCarryLsb(bits, carry) ==
  IF bits = <<>> THEN IntToBitsLsb(carry)
  ELSE <<(Head(bits) + carry) % 2>> \o AddCarryLsb(Tail(bits), (Head(bits) + carry) \div 2)

\* bits (least significant first) times the natural number n, plus carry
RECURSIVE TimesLsb(_, _, _)
TimesLsb(bits, n, carry) ==
  IF bits = <<>> THEN IntToBitsLsb(carry)
  ELSE <<(Head(bits) * n + carry) % 2>>
       \o TimesLsb(Tail(bits), n, (Head(bits) * n + carry) \div 2)

\* round to nearest, ties to even: bits (most significant first, leading 1,
\* longer than Precision) times 2^exp, sticky when a non-zero rest was cut
\* off below the last bit
RoundToNearestEven(bits, exp, sticky) ==
  LET keep == SubSeq(bits, 1, Precision)
      rest == SubSeq(bits, Precision + 1, Len(bits))
      more == sticky \/ \E i \in 2..Len(rest) : rest[i] = 1
      up == rest[1] = 1 /\ (more \/ keep[Precision] = 1)
      sum == IF up THEN Reverse(AddCarryLsb(Reverse(keep), 1)) ELSE keep
  IN [mant |-> SubSeq(sum, 1, Precision),
      exp |-> exp + Len(rest) + (Len(sum) - Precision)]

\* n quotient bits of rem / d, most significant first, for rem < 2 * d
RECURSIVE QuotientBits(_, _, _)
QuotientBits(rem, d, n) ==
  IF n = 0 THEN <<>>
  ELSE IF rem >= d THEN <<1>> \o QuotientBits(2 * (rem - d), d, n - 1)
       ELSE <<0>> \o QuotientBits(2 * rem, d, n - 1)

\* what is left of rem / d after n quotient bits
RECURSIVE QuotientRest(_, _, _)
QuotientRest(rem, d, n) ==
  IF n = 0 THEN rem
  ELSE IF rem >= d THEN QuotientRest(2 * (rem - d), d, n - 1)
       ELSE QuotientRest(2 * rem, d, n - 1)

\* the least k with n * 2^k >= d
RECURSIVE Shift(_, _)
Shift(n, d) == IF n >= d THEN 0 ELSE 1 + Shift(2 * n, d)

\* n / d for counts 0 <= n <= d, d > 0
Divide(n, d) ==
  IF n = 0 THEN Zero
  ELSE LET k == Shift(n, d)
           first == n * Pow2(k)
       IN RoundToNearestEven(QuotientBits(first, d, Precision + 1),
                             0 - k - Precision,
                             QuotientRest(first, d, Precision + 1) # 0)

\* x * n for an integer literal n >= 2
Times(x, n) ==
  IF x = Zero THEN Zero
  ELSE RoundToNearestEven(Reverse(TimesLsb(Reverse(x.mant), n, 0)), x.exp, FALSE)

\* Math.round: the integer nearest to x, the greater one on a tie
MathRound(x) ==
  IF x = Zero THEN 0
  ELSE LET whole == Precision + x.exp
       IN IF whole < 0 THEN 0
          ELSE BitsToInt(SubSeq(x.mant, 1, whole)) + x.mant[whole + 1]

\* ------------------------------------------------------------ Dashboard
\* The Dashboard's clock counts half days of local time: a local calendar
\* day is DayLen units, and 30 * 24 * 3600 * 1000 ms are WindowDays days.
DayLen == 2
WindowDays == 30
HistogramDays == 7
ParetoTop == 6

\* new Date(t).toDateString(): the local calendar day of t
DateOf(t) == t \div DayLen

ProcessedToday(intakes, t) ==
  Len(SelectSeq(intakes, LAMBDA i : DateOf(i.createdAt) = DateOf(t)))

Last30(repairs, t) ==
  SelectSeq(repairs, LAMBDA r : t - r.startAt <= WindowDays * DayLen)

SerialsOf(repairs) == {repairs[i].serial : i \in 1..Len(repairs)}

RepeatRepairs30d(repairs, t) ==
  Cardinality({s \in SerialsOf(repairs) : Len(Last30(BySerial(repairs, s), t)) > 1})

WithDisposition(repairs, d) == SelectSeq(repairs, LAMBDA r : r.disposition = d)

YieldPct(repairs, t) ==
  LET repaired == Len(WithDisposition(Last30(repairs, t), "Repaired"))
      scrapped == Len(WithDisposition(Last30(repairs, t), "Scrap"))
  IN IF repaired + scrapped # 0
       THEN MathRound(Times(Divide(repaired, repaired + scrapped), 100))
       ELSE 0

HoldFields == {"labels_match", "safety_ok", "ports_intact", "power_symptom", "esd_ok"}

\* mutant: a "Fail" in any field of the checklist holds the Intake
OpenHoldsAnyFail(intakes) ==
  Len(SelectSeq(intakes, LAMBDA v : \E f \in DOMAIN v.checklist : v.checklist[f] = "Fail"))

OpenHolds(intakes) ==
  Len(SelectSeq(intakes, LAMBDA v : \E f \in HoldFields : v.checklist[f] = "Fail"))

\* mutant: a bucket that includes the midnight closing its day
DayBucketInclusive(repairs, t, d) ==
  LET date == (DateOf(t) - (HistogramDays - 1 - d)) * DayLen
      dayEnd == date + DayLen
  IN [label |-> DateOf(date),
      count |-> Len(SelectSeq(repairs, LAMBDA r : r.startAt >= date /\ r.startAt <= dayEnd))]

\* bucket d (0 = oldest) covers the local day HistogramDays - 1 - d days
\* before the day of t, from its midnight to the next
DayBucket(repairs, t, d) ==
  LET date == (DateOf(t) - (HistogramDays - 1 - d)) * DayLen
      dayEnd == date + DayLen
  IN [label |-> DateOf(date),
      count |-> Len(SelectSeq(repairs, LAMBDA r : r.startAt >= date /\ r.startAt < dayEnd))]

Days(repairs, t) == [p \in 1..HistogramDays |-> DayBucket(repairs, t, p - 1)]

\* Object keys.  failCount is a plain object: Object.entries lists its
\* array-index keys first, in ascending numeric order, then its other keys
\* in the order they were added.  Keys of up to 9 characters are modelled.
Digits == <<"0", "1", "2", "3", "4", "5", "6", "7", "8", "9">>
IsDigit(c) == \E d \in 1..Len(Digits) : Digits[d] = c
DigitValue(c) == (CHOOSE d \in 1..Len(Digits) : Digits[d] = c) - 1

IsArrayIndex(key) ==
  /\ key # <<>>
  /\ Len(key) <= 9
  /\ \A i \in 1..Len(key) : IsDigit(key[i])
  /\ Len(key) = 1 \/ key[1] # "0"

RECURSIVE IndexValue(_)
IndexValue(key) ==
  IF key = <<>> THEN 0
  ELSE 10 * IndexValue(SubSeq(key, 1, Len(key) - 1)) + DigitValue(key[Len(key)])

\* the distinct items of s in the order of their first occurrence
RECURSIVE FirstSeen(_)
FirstSeen(s) ==
  IF s = <<>> THEN <<>>
  ELSE LET front == FirstSeen(SubSeq(s, 1, Len(s) - 1))
       IN IF \E i \in 1..Len(front) : front[i] = s[Len(s)]
            THEN front ELSE Append(front, s[Len(s)])

\* keys added in the order `added`, as Object.entries lists them
OwnKeys(added) ==
  LET index == SelectSeq(added, IsArrayIndex)
      named == SelectSeq(added, LAMBDA k : ~IsArrayIndex(k))
  IN StableSort(index, [i \in 1..Len(index) |-> IndexValue(index[i])]) \o named

FailureCodes(repairs) == [i \in 1..Len(repairs) |-> repairs[i].failureCode]

WithFailureCode(repairs, c) == SelectSeq(repairs, LAMBDA r : r.failureCode = c)

\* Object.entries(failCount)
FailCount(last30) ==
  LET keys == OwnKeys(FirstSeen(FailureCodes(last30)))
  IN [i \in 1..Len(keys) |->
        [code |-> keys[i], count |-> Len(WithFailureCode(last30, keys[i]))]]

\* mutant: the entries cut to ParetoTop without sorting
ParetoUnsorted(repairs, t) ==
  LET entries == FailCount(Last30(repairs, t))
  IN SubSeq(entries, 1, IF Len(entries) < ParetoTop THEN Len(entries) ELSE ParetoTop)

Pareto(repairs, t) ==
  LET entries == FailCount(Last30(repairs, t))
      sorted == StableSort(entries, [i \in 1..Len(entries) |-> 0 - entries[i].count])
  IN SubSeq(sorted, 1, IF Len(sorted) < ParetoTop THEN Len(sorted) ELSE ParetoTop)

\* the figures one render of the Dashboard shows
Dashboard(p) ==
  [processedToday |-> ProcessedToday(p.intakes, p.now),
   repeatRepairs30d |-> RepeatRepairs30d(p.repairs, p.now),
   yieldPct |-> YieldPct(p.repairs, p.now),
   openHolds |-> OpenHolds(p.intakes),
   days |-> Days(p.repairs, p.now),
   pareto |-> Pareto(p.repairs, p.now)]

\* ---------------------------------------------------------- downloadCSV
\* A row is an object: its own keys in Object.keys order, each with a value.
\* A value is undefined, a string (a sequence of characters) or a
\* non-negative integer; text is a sequence of characters.
Undefined == [t |-> "undefined", s |-> <<>>, n |-> 0]
Str(chars) == [t |-> "string", s |-> chars, n |-> 0]
Num(k) == [t |-> "number", s |-> <<>>, n |-> k]
Quote == "\""
Comma == ","
LineBreak == "\n"

RECURSIVE NumberToString(_)
NumberToString(k) ==
  IF k < 10 THEN <<Digits[k + 1]>>
  ELSE NumberToString(k \div 10) \o <<Digits[(k % 10) + 1]>>

\* String(v ?? '')
StringOf(v) ==
  IF v.t = "undefined" THEN <<>>
  ELSE IF v.t = "number" THEN NumberToString(v.n) ELSE v.s

\* .replace(/"/g, '""')
RECURSIVE DoubleQuotes(_)
DoubleQuotes(chars) ==
  IF chars = <<>> THEN <<>>
  ELSE (IF Head(chars) = Quote THEN <<Quote, Quote>> ELSE <<Head(chars)>>)
       \o DoubleQuotes(Tail(chars))

\* mutant: a cell wrapped in quotes with its inner quotes left single
EscapeSingle(v) == <<Quote>> \o StringOf(v) \o <<Quote>>

Escape(v) == <<Quote>> \o DoubleQuotes(StringOf(v)) \o <<Quote>>

\* Array.prototype.join of texts
RECURSIVE Join(_, _)
Join(texts, sep) ==
  IF texts = <<>> THEN <<>>
  ELSE IF Len(texts) = 1 THEN texts[1]
  ELSE texts[1] \o <<sep>> \o Join(Tail(texts), sep)

KeysOf(row) == [i \in 1..Len(row) |-> row[i].key]

\* rows.flatMap((r) => Object.keys(r))
RECURSIVE FlatKeys(_)
FlatKeys(rs) == IF rs = <<>> THEN <<>> ELSE KeysOf(Head(rs)) \o FlatKeys(Tail(rs))

\* Array.from(new Set(..)): a Set keeps the order of first insertion
Headers(rs) == FirstSeen(FlatKeys(rs))

\* r[h]
Get(row, h) ==
  IF \E i \in 1..Len(row) : row[i].key = h
    THEN row[CHOOSE i \in 1..Len(row) : row[i].key = h].value
    ELSE Undefined

CsvLine(row, headers) == Join([h \in 1..Len(headers) |-> Escape(Get(row, headers[h]))], Comma)

CsvText(rs) ==
  Join(<<Join(Headers(rs), Comma)>> \o [r \in 1..Len(rs) |-> CsvLine(rs[r], Headers(rs))],
       LineBreak)

\* ---------------------------------------------------------------- JSON
\* values of the lookup lists: numbers, strings and null in an array.
\* A number that parseInt makes too large for a double is Infinity.
Null == [t |-> "null", s |-> <<>>, n |-> 0]
NaN == [t |-> "NaN", s |-> <<>>, n |-> 0]
Infinity == [t |-> "Infinity", s |-> <<>>, n |-> 0]
Arr(items) == [t |-> "array", items |-> items]
Backslash == "\\"
NullText == <<"n", "u", "l", "l">>

\* QuoteJSONString over the characters of the model
RECURSIVE JsonEscape(_)
JsonEscape(chars) ==
  IF chars = <<>> THEN <<>>
  ELSE (IF Head(chars) \in {Quote, Backslash} THEN <<Backslash, Head(chars)>>
        ELSE IF Head(chars) = LineBreak THEN <<Backslash, "n">>
        ELSE <<Head(chars)>>) \o JsonEscape(Tail(chars))

\* Number::toString of an integer
SignedToString(k) == IF k < 0 THEN <<"-">> \o NumberToString(-k) ELSE NumberToString(k)

\* SerializeJSONProperty: a number that is not finite is written as null
JsonScalar(v) ==
  CASE v.t = "string" -> <<Quote>> \o JsonEscape(v.s) \o <<Quote>>
    [] v.t = "number" -> SignedToString(v.n)
    [] v.t \in {"null", "NaN", "Infinity"} -> NullText

\* JSON.stringify
Stringify(v) ==
  IF v.t = "array"
    THEN <<"[">> \o Join([i \in 1..Len(v.items) |-> JsonScalar(v.items[i])], Comma) \o <<"]">>
    ELSE JsonScalar(v)

\* the outcome of parsing a prefix of a text: the value and the text left
Parsed(v, rest) == [ok |-> TRUE, v |-> v, rest |-> rest]
SyntaxError == [ok |-> FALSE, v |-> Null, rest |-> <<>>]

JsonWhitespace == {" ", LineBreak}

\* how many characters at the head of text are in chars
RunLength(text, chars) ==
  IF \A i \in 1..Len(text) : text[i] \in chars THEN Len(text)
  ELSE (CHOOSE i \in 1..Len(text) :
          text[i] \notin chars /\ \A j \in 1..(i - 1) : text[j] \in chars) - 1

\* how many characters at the head of text are not in chars
GapLength(text, chars) ==
  IF \A i \in 1..Len(text) : text[i] \notin chars THEN Len(text)
  ELSE (CHOOSE i \in 1..Len(text) :
          text[i] \in chars /\ \A j \in 1..(i - 1) : text[j] \notin chars) - 1

DropWhile(text, chars) == SubSeq(text, RunLength(text, chars) + 1, Len(text))

TakeWhile(text, chars) == SubSeq(text, 1, RunLength(text, chars))

DigitChars == {Digits[d] : d \in 1..Len(Digits)}

\* a JSON string after its opening quote; of the escapes, those JsonEscape
\* writes
RECURSIVE JsonStringBody(_, _)
JsonStringBody(text, acc) ==
  IF text = <<>> \/ Head(text) = LineBreak THEN SyntaxError
  ELSE IF Head(text) = Quote THEN Parsed(Str(acc), Tail(text))
  ELSE IF Head(text) = Backslash
    THEN IF Len(text) < 2 THEN SyntaxError
         ELSE IF text[2] \in {Quote, Backslash}
           THEN JsonStringBody(SubSeq(text, 3, Len(text)), Append(acc, text[2]))
         ELSE IF text[2] = "n"
           THEN JsonStringBody(SubSeq(text, 3, Len(text)), Append(acc, LineBreak))
         ELSE SyntaxError
  ELSE JsonStringBody(Tail(text), Append(acc, Head(text)))

\* a JSON integer: an optional minus, then 0 or digits not starting with 0
JsonNumber(text) ==
  LET neg == text # <<>> /\ Head(text) = "-"
      body == IF neg THEN Tail(text) ELSE text
      digits == TakeWhile(body, DigitChars)
  IN IF digits = <<>> \/ (Len(digits) > 1 /\ digits[1] = "0") THEN SyntaxError
     ELSE Parsed(Num(IF neg THEN -IndexValue(digits) ELSE IndexValue(digits)),
                 SubSeq(body, Len(digits) + 1, Len(body)))

\* a string, a number or null at the head of text
JsonScalarAt(text) ==
  IF text = <<>> THEN SyntaxError
  ELSE IF Head(text) = Quote THEN JsonStringBody(Tail(text), <<>>)
  ELSE IF Len(text) >= 4 /\ SubSeq(text, 1, 4) = NullText
    THEN Parsed(Null, SubSeq(text, 5, Len(text)))
  ELSE JsonNumber(text)

\* the elements of an array after '[' or ',', up to and with the closing ']'
RECURSIVE JsonElements(_, _)
JsonElements(text, acc) ==
  LET e == JsonScalarAt(DropWhile(text, JsonWhitespace))
      after == DropWhile(e.rest, JsonWhitespace)
  IN IF ~e.ok \/ after = <<>> THEN SyntaxError
     ELSE IF Head(after) = Comma THEN JsonElements(Tail(after), Append(acc, e.v))
     ELSE IF Head(after) = "]" THEN Parsed(Arr(Append(acc, e.v)), Tail(after))
     ELSE SyntaxError

JsonValueAt(text) ==
  IF text # <<>> /\ Head(text) = "["
    THEN LET inner == DropWhile(Tail(text), JsonWhitespace)
         IN IF inner # <<>> /\ Head(inner) = "]" THEN Parsed(Arr(<<>>), Tail(inner))
            ELSE JsonElements(inner, <<>>)
    ELSE JsonScalarAt(text)

\* JSON.parse: one value, with nothing but whitespace around it
JsonParse(text) ==
  LET p == JsonValueAt(DropWhile(text, JsonWhitespace))
  IN IF p.ok /\ DropWhile(p.rest, JsonWhitespace) = <<>> THEN p ELSE SyntaxError

\* ------------------------------------------------------------ lookup lists
\* the lists the Admin tab edits, each kept in localStorage under its name
ListNames == {"sizes", "sources", "reasons"}

\* the first two of DEFAULT_TV_SIZES and one item of each other default
DEFAULT_TV_SIZES == Arr(<<Num(24), Num(28)>>)
DEFAULT_RETURN_SOURCE_SUGGESTIONS == Arr(<<Str(<<"A", "m", "a", "z", "o", "n">>)>>)
DEFAULT_RETURN_REASON_SUGGESTIONS == Arr(<<Str(<<"N", "o", " ", "p", "o", "w", "e", "r">>)>>)
Default(name) ==
  CASE name = "sizes" -> DEFAULT_TV_SIZES
    [] name = "sources" -> DEFAULT_RETURN_SOURCE_SUGGESTIONS
    [] name = "reasons" -> DEFAULT_RETURN_REASON_SUGGESTIONS

\* mutant: an initialiser that starts an unreadable entry as the empty list
StartupEmptyOnError(name, raw) ==
  IF raw = None THEN Default(name)
  ELSE LET p == JsonParse(ValueOf(raw))
       IN IF p.ok THEN p.v ELSE Arr(<<>>)

\* the useState initialiser of a list: raw is localStorage.getItem(name),
\* None when there is no entry; the empty string is falsy; a JSON.parse that
\* throws is caught
Startup(name, raw) ==
  IF raw = None \/ ValueOf(raw) = <<>> THEN Default(name)
  ELSE LET p == JsonParse(ValueOf(raw))
       IN IF p.ok THEN p.v ELSE Default(name)

\* String.prototype.split on a regular expression [seps]+ : the pieces between
\* the maximal runs of separators, empty pieces at the ends included
RECURSIVE SplitAt(_, _)
SplitAt(text, seps) ==
  LET piece == SubSeq(text, 1, GapLength(text, seps))
      rest == SubSeq(text, Len(piece) + 1, Len(text))
  IN IF rest = <<>> THEN <<piece>>
     ELSE <<piece>> \o SplitAt(DropWhile(rest, seps), seps)

\* digits a double holds exactly, and the length from which a decimal
\* integer exceeds the largest double (about 1.8 * 10^308)
ExactDigits == 9
OverflowDigits == 310
NegInfinity == [t |-> "Infinity", s |-> <<"-">>, n |-> 0]

\* parseInt(token, 10): leading whitespace, a sign, then the longest run of
\* digits; NaN without a digit.  Defined for the integers a double holds
\* exactly and for those beyond its range.
ParseInt(token) ==
  LET t == DropWhile(token, JsonWhitespace)
      neg == t # <<>> /\ Head(t) = "-"
      body == IF t # <<>> /\ Head(t) \in {"-", "+"} THEN Tail(t) ELSE t
      digits == TakeWhile(body, DigitChars)
      sig == DropWhile(digits, {"0"})
  IN CASE digits = <<>> -> NaN
       [] digits # <<>> /\ Len(sig) >= OverflowDigits ->
            IF neg THEN NegInfinity ELSE Infinity
       [] digits # <<>> /\ Len(sig) <= ExactDigits ->
            Num(IF neg THEN -IndexValue(sig) ELSE IndexValue(sig))

\* AdminPanel.parseSizes
ParseSizes(text) ==
  LET tokens == SplitAt(text, {" ", Comma, LineBreak})
      numbers == [i \in 1..Len(tokens) |-> ParseInt(tokens[i])]
  IN Arr(SelectSeq(numbers, LAMBDA v : v # NaN))

\* AdminPanel.parseList
ParseList(text) ==
  LET lines == SplitAt(text, {LineBreak})
      trimmed == [i \in 1..Len(lines) |-> Trim(lines[i])]
  IN Arr([i \in 1..Len(SelectSeq(trimmed, LAMBDA l : l # <<>>)) |->
            Str(SelectSeq(trimmed, LAMBDA l : l # <<>>)[i])])

\* Array.prototype.join with a separator of any length; null is joined as ''
RECURSIVE JoinWith(_, _)
JoinWith(texts, sep) ==
  IF texts = <<>> THEN <<>>
  ELSE IF Len(texts) = 1 THEN texts[1]
  ELSE texts[1] \o sep \o JoinWith(Tail(texts), sep)

ItemText(v) ==
  CASE v.t = "string" -> v.s
    [] v.t = "number" -> SignedToString(v.n)
    [] v.t = "null" -> <<>>
    [] v = Infinity -> <<"I", "n", "f", "i", "n", "i", "t", "y">>
    [] v = NegInfinity -> <<"-", "I", "n", "f", "i", "n", "i", "t", "y">>

JoinList(list, sep) == JoinWith([i \in 1..Len(list.items) |-> ItemText(list.items[i])], sep)

\* what earlier sessions can have left under a key: no entry, an empty
\* array, or an array with a record saved at time 0
StoredIntakes == {None, Some(<<>>), Some(<<[serial |-> <<"a">>, createdAt |-> 0]>>)}
StoredRepairs == {None, Some(<<>>), Some(<<[serial |-> <<"a">>, startAt |-> 0]>>)}
StoredStates == [intakes : StoredIntakes, repairs : StoredRepairs]

\* ------------------------------------------------- inputs of the Dashboard
\* lists of at most n items of S
Lists(S, n) == UNION {[1..k -> S] : k \in 0..n}

\* midnight opening the local day the Dashboard renders on
DashToday == 50 * DayLen
NowInputs == {DashToday, DashToday + 1}

\* start times at and around the edges of the 30-day window, of the
\* histogram, and of now
DashStarts ==
  {DashToday - WindowDays * DayLen - 1, DashToday - WindowDays * DayLen,
   DashToday - (HistogramDays - 1) * DayLen - 1, DashToday - (HistogramDays - 1) * DayLen,
   DashToday, DashToday + 1, DashToday + DayLen}

DashRepair(serial, startAt, disposition, failureCode) ==
  [serial |-> serial, startAt |-> startAt,
   disposition |-> disposition, failureCode |-> failureCode]

\* Repairs of two serials over the start times
MaxTimed == 3
TimedRepairs ==
  {DashRepair(s, t, "Repaired", <<"A">>) : s \in {<<"a">>, <<"b">>}, t \in DashStarts}

\* many Repairs of the day before: n Repaired, then m Scrap, then a tail of
\* Repairs that must not count
MaxRepaired == 23
MaxScrapped == 17
Yesterday(disposition) == DashRepair(<<"a">>, DashToday - 1, disposition, <<"A">>)
UncountedTails ==
  {<<>>,
   <<Yesterday("NTF"), Yesterday("BER")>>,
   <<DashRepair(<<"a">>, DashToday - WindowDays * DayLen - 1, "Scrap", <<"A">>)>>}
BulkRepairs ==
  {[i \in 1..(n + m) |-> Yesterday(IF i <= n THEN "Repaired" ELSE "Scrap")] \o tail :
     n \in 0..MaxRepaired, m \in 0..MaxScrapped, tail \in UncountedTails}

\* Repairs of the day before by failure code: short lists over four codes,
\* two of them digit strings, alone or after one Repair of each of seven codes
MaxCodes == 3
FewCodes == {<<"A">>, <<"B">>, <<"7">>, <<"3">>}
SevenCodes == <<<<"A">>, <<"B">>, <<"7">>, <<"3">>, <<"C">>, <<"D">>, <<"0", "7">>>>
Coded(codes) == [i \in 1..Len(codes) |-> DashRepair(<<"a">>, DashToday - 1, "Repaired", codes[i])]
CodedRepairs ==
  {Coded(codes) : codes \in Lists(FewCodes, MaxCodes)}
  \cup {Coded(SevenCodes \o codes) : codes \in Lists(FewCodes, MaxCodes)}

\* Intakes of today and of the day before, over checklists
MaxIntakes == 2
Statuses == {"Pass", "Conditional", "Fail", "N/A"}
OtherFields ==
  {"cosmetic_backcover", "cosmetic_screen", "cosmetic_bezel", "cosmetic_base",
   "accessory_remote", "accessory_stand", "accessory_powercord", "accessory_screws"}
\* a checklist with every hold field at status h and every other field at o
Checklist(h, o) == [f \in HoldFields \cup OtherFields |-> IF f \in HoldFields THEN h ELSE o]
ChecklistInputs ==
  {Checklist(h, o) : h \in {"Pass", "Fail"}, o \in {"Pass", "Fail"}}
  \cup {[Checklist("Pass", "Pass") EXCEPT ![f] = s] :
          f \in HoldFields \cup {"cosmetic_screen"}, s \in {"Fail", "Conditional"}}
DashIntakes ==
  {[serial |-> <<"a">>, createdAt |-> t, checklist |-> c] :
     t \in {DashToday - 1, DashToday}, c \in ChecklistInputs}

\* ------------------------------------------------- inputs of downloadCSV
MaxRows == 2
CsvKeys == {<<"a">>, <<"b">>}
CsvValues == {Undefined, Str(<<"x", Quote>>), Str(<<Comma, LineBreak>>), Num(10)}
\* objects with some of the keys, in either order
RowInputs ==
  {<<>>}
  \cup {<<[key |-> k, value |-> v]>> : k \in CsvKeys, v \in CsvValues}
  \cup {row \in {<<[key |-> k, value |-> v], [key |-> l, value |-> w]>> :
                    k \in CsvKeys, l \in CsvKeys, v \in CsvValues, w \in CsvValues} :
          row[1].key # row[2].key}
RowsInputs == Lists(RowInputs, MaxRows)

\* no Dashboard and no download
NoProps == [intakes |-> <<>>, repairs |-> <<>>, now |-> 0]
Unmounted ==
  /\ props = NoProps /\ kpi = None
  /\ dlRows = <<>> /\ dlText = None

\* the state of the lists after App's first render over the entries that
\* localStorage holds: the initialisers read them, the write effects run
StartedFrom(entries) ==
  /\ startup = [entries |-> entries,
                lists |-> [name \in ListNames |-> Startup(name, entries[name])]]
  /\ lists = startup.lists
  /\ ls = [name \in ListNames |-> Some(Stringify(lists[name]))]

\* no AdminPanel is mounted
NoPanel ==
  /\ authorized = FALSE /\ inputKey = ""
  /\ szText = <<>> /\ srcText = <<>> /\ reaText = <<>>
  /\ wrongTries = 0

\* the checklist of a fresh IntakeForm
AllPass == Checklist("Pass", "Pass")
\* nothing entered on the checklist and no hold announced
NoHold == checklist = AllPass /\ held = {}
\* no failure code picked or typed
NoCode == codeValue = <<>> /\ isCustom = FALSE

\* requests the proxy serves at once
MaxRequests == 2
ReqIds == 1..MaxRequests
\* chunks of body one request delivers
MaxChunks == 2
\* bytes of the longest request body
MaxBody == 3

\* a request the proxy has not received yet
NoRequest ==
  [stage |-> "none", method |-> "", url |-> <<>>, rest |-> <<>>,
   chunks |-> <<>>, body |-> <<>>, forwarded |-> None, target |-> None, answers |-> <<>>]
NoTraffic == conn = [id \in ReqIds |-> NoRequest]

\* cloud saves running at once
MaxSaves == 2
SaveIds == 1..MaxSaves
\* the latest Date.now() an upload path carries
MaxStamp == 1

\* a cloud save that has not been called
NoSave ==
  [stage |-> "none", folder |-> <<>>, serial |-> <<>>, photos |-> <<>>,
   pos |-> 1, idx |-> 0, results |-> <<>>, ref |-> <<>>]
NoCloud ==
  /\ saves = [id \in SaveIds |-> NoSave]
  /\ bucket = {}
  /\ docs = {}

\* submissions of the Flow repair form in one session
MaxSubmits == 3

\* the Flow repair form as mounted: useState(false), useState(null), blank
\* inputs, nothing submitted
NoFlow ==
  /\ sending = FALSE
  /\ msg = None
  /\ fields = "blank"
  /\ subs = <<>>

\* the lists as started without entries, no AdminPanel, no hold, and the
\* other programs at rest
Idle ==
  /\ StartedFrom([name \in ListNames |-> None])
  /\ NoPanel
  /\ NoHold
  /\ NoCode
  /\ NoTraffic
  /\ NoCloud
  /\ NoFlow

\* useIndexedDB(key, initial) is called with initial = []
Initial == <<>>

LoadReq(k) == [op |-> "load", key |-> k, value |-> <<>>]
PutReq(k, snapshot) == [op |-> "put", key |-> k, value |-> snapshot]

\* effects of the first render: load and write of 'intakes', then of 'repairs'
MountEffects ==
  <<LoadReq("intakes"), PutReq("intakes", Initial),
    LoadReq("repairs"), PutReq("repairs", Initial)>>

Init ==
  /\ idb \in BOOLEAN
  /\ IF idb
       THEN /\ persisted \in StoredStates
            /\ loadSt = [k \in Keys |-> "pending"]
            /\ reqQ = MountEffects
       ELSE /\ persisted = [k \in Keys |-> None]
            /\ loadSt = [k \in Keys |-> "skipped"]
            /\ reqQ = <<>>
  /\ getting = FALSE
  /\ stored0 = persisted
  /\ data = [k \in Keys |-> Initial]
  /\ appended = [k \in Keys |-> <<>>]
  /\ tab = "intake"
  /\ now = 1
  /\ formCreatedAt = now
  /\ formStartAt = NoTime
  /\ q = <<>>
  /\ alert = "none"
  /\ csv = None
  /\ invalid = "none"
  /\ actions = <<>> /\ choice = "" /\ custom = <<>>
  /\ Unmounted
  /\ Idle

\* the step shows no alert and downloads nothing
NoOutput == alert' = "none" /\ csv' = None /\ invalid' = "none"

\* ------------------------------------------------------------ record store
\* the write effect of useIndexedDB, run after a render in which data changed
WriteEffect(queue, k, snapshot) ==
  IF idb THEN Append(queue, PutReq(k, snapshot)) ELSE queue

HeadIs(op) == reqQ # <<>> /\ Head(reqQ).op = op

\* load effect: req.onsuccess opens the readonly transaction and issues get
LoadOpenSuccess ==
  /\ HeadIs("load") /\ ~getting
  /\ getting' = TRUE
  /\ NoOutput
  /\ UNCHANGED <<idb, persisted, stored0, data, loadSt, reqQ, appended,
                 tab, now, formCreatedAt, formStartAt, q>>
  /\ UNCHANGED <<comboVars, dashVars, csvVars>>
  /\ UNCHANGED <<otherVars, panelVars, holdVars, codeVars>>

\* load effect: the open request errors (no onerror handler), or
\* db.transaction throws and the catch swallows it
LoadOpenFail ==
  /\ HeadIs("load") /\ ~getting
  /\ loadSt' = [loadSt EXCEPT ![Head(reqQ).key] = "failed"]
  /\ reqQ' = Tail(reqQ)
  /\ NoOutput
  /\ UNCHANGED <<idb, persisted, stored0, data, getting, appended,
                 tab, now, formCreatedAt, formStartAt, q>>
  /\ UNCHANGED <<comboVars, dashVars, csvVars>>
  /\ UNCHANGED <<otherVars, panelVars, holdVars, codeVars>>

\* a getReq.onsuccess that never calls setData
LoadGetSuccessNoSet ==
  /\ HeadIs("load") /\ getting
  /\ LET k == Head(reqQ).key
     IN loadSt' = [loadSt EXCEPT ![k] = IF persisted[k] # None THEN "loaded"
                                                              ELSE "nothing"]
  /\ reqQ' = Tail(reqQ)
  /\ getting' = FALSE
  /\ NoOutput
  /\ UNCHANGED <<idb, persisted, stored0, data, appended,
                 tab, now, formCreatedAt, formStartAt, q>>
  /\ UNCHANGED <<comboVars, dashVars, csvVars>>
  /\ UNCHANGED <<otherVars, panelVars, holdVars, codeVars>>

\* load effect: getReq.onsuccess
LoadGetSuccess ==
  /\ HeadIs("load") /\ getting
  /\ LET k == Head(reqQ).key
     IN IF persisted[k] # None
          THEN /\ data' = [data EXCEPT ![k] = ValueOf(persisted[k])]
               /\ reqQ' = WriteEffect(Tail(reqQ), k, ValueOf(persisted[k]))
               /\ loadSt' = [loadSt EXCEPT ![k] = "loaded"]
          ELSE /\ loadSt' = [loadSt EXCEPT ![k] = "nothing"]
               /\ reqQ' = Tail(reqQ)
               /\ UNCHANGED data
  /\ getting' = FALSE
  /\ NoOutput
  /\ UNCHANGED <<idb, persisted, stored0, appended,
                 tab, now, formCreatedAt, formStartAt, q>>
  /\ UNCHANGED <<comboVars, dashVars, csvVars>>
  /\ UNCHANGED <<otherVars, panelVars, holdVars, codeVars>>

\* load effect: the get request errors (no onerror handler)
LoadGetFail ==
  /\ HeadIs("load") /\ getting
  /\ loadSt' = [loadSt EXCEPT ![Head(reqQ).key] = "failed"]
  /\ reqQ' = Tail(reqQ)
  /\ getting' = FALSE
  /\ NoOutput
  /\ UNCHANGED <<idb, persisted, stored0, data, appended,
                 tab, now, formCreatedAt, formStartAt, q>>
  /\ UNCHANGED <<comboVars, dashVars, csvVars>>
  /\ UNCHANGED <<otherVars, panelVars, holdVars, codeVars>>

\* write effect: req.onsuccess puts {key, value: data} and the put commits
WritePut ==
  /\ HeadIs("put")
  /\ persisted' = [persisted EXCEPT ![Head(reqQ).key] = Some(Head(reqQ).value)]
  /\ reqQ' = Tail(reqQ)
  /\ NoOutput
  /\ UNCHANGED <<idb, stored0, data, loadSt, getting, appended,
                 tab, now, formCreatedAt, formStartAt, q>>
  /\ UNCHANGED <<comboVars, dashVars, csvVars>>
  /\ UNCHANGED <<otherVars, panelVars, holdVars, codeVars>>

\* a failed write that resets the state to the hook's initial value
WriteFailResets ==
  /\ HeadIs("put")
  /\ data[Head(reqQ).key] # Initial
  /\ data' = [data EXCEPT ![Head(reqQ).key] = Initial]
  /\ reqQ' = Tail(reqQ)
  /\ NoOutput
  /\ UNCHANGED <<idb, persisted, stored0, loadSt, getting, appended,
                 tab, now, formCreatedAt, formStartAt, q>>
  /\ UNCHANGED <<comboVars, dashVars, csvVars>>
  /\ UNCHANGED <<otherVars, panelVars, holdVars, codeVars>>

\* write effect: the open errors, the transaction or put throws (caught),
\* or the transaction aborts; nothing observes it
WriteFail ==
  /\ HeadIs("put")
  /\ reqQ' = Tail(reqQ)
  /\ NoOutput
  /\ UNCHANGED <<idb, persisted, stored0, data, loadSt, getting, appended,
                 tab, now, formCreatedAt, formStartAt, q>>
  /\ UNCHANGED <<comboVars, dashVars, csvVars>>
  /\ UNCHANGED <<otherVars, panelVars, holdVars, codeVars>>

\* a write effect that closes over the data of the previous render
AppendRecordStale(k, r) ==
  /\ data' = [data EXCEPT ![k] = Append(@, r)]
  /\ reqQ' = WriteEffect(reqQ, k, data[k])
  /\ appended' = [appended EXCEPT ![k] = Append(@, r)]
  /\ now' = now + 1

\* a load effect that lists data among its dependencies and so runs again
AppendRecordReload(k, r) ==
  /\ data' = [data EXCEPT ![k] = Append(@, r)]
  /\ reqQ' = IF idb THEN Append(WriteEffect(reqQ, k, Append(data[k], r)), LoadReq(k))
                    ELSE reqQ
  /\ appended' = [appended EXCEPT ![k] = Append(@, r)]
  /\ now' = now + 1

\* App.onSaved: setIntakes(prev => [...prev, i]) / setRepairs(...), then the
\* re-render runs the write effect with the new data
AppendRecord(k, r) ==
  /\ data' = [data EXCEPT ![k] = Append(@, r)]
  /\ reqQ' = WriteEffect(reqQ, k, Append(data[k], r))
  /\ appended' = [appended EXCEPT ![k] = Append(@, r)]
  /\ now' = now + 1

CanAppend == Len(appended.intakes) + Len(appended.repairs) < MaxAppends

\* ------------------------------------------------------------------- forms
\* IntakeForm blockers: a Fail in one of the five hold fields
Blockers(c) == \E f \in HoldFields : c[f] = "Fail"

\* what the operator can set on the checklist
ChecklistEdits == {"safety_ok", "esd_ok", "cosmetic_screen"} \X {"Pass", "Fail"}

\* IntakeForm.setC, a status picked on a checklist item
SetC(k, val) ==
  /\ tab = "intake"
  /\ checklist' = [checklist EXCEPT ![k] = val]
  /\ NoOutput
  /\ UNCHANGED <<idb, persisted, stored0, data, loadSt, reqQ, getting,
                 appended, tab, now, formCreatedAt, formStartAt, q>>
  /\ UNCHANGED <<comboVars, dashVars, csvVars>>
  /\ UNCHANGED <<otherVars, panelVars, held, codeVars>>

\* the submit button of IntakeForm.  The serial input is `required`: while
\* it is empty the browser reports the field and does not call onSubmit.
\* The alert is written here with a hyphen for its dash.
IntakeSubmit(serial) ==
  /\ tab = "intake"
  /\ IF serial = <<>>
       THEN /\ invalid' = "serial"
            /\ alert' = "none"
            /\ UNCHANGED <<data, reqQ, appended, now, held>>
       ELSE /\ CanAppend
            /\ AppendRecord("intakes", [serial |-> serial, createdAt |-> formCreatedAt])
            /\ alert' = IF Blockers(checklist) THEN "Repair blocked: Hold - QE Review"
                                               ELSE "Intake saved. Proceed to Repair."
            /\ held' = IF Blockers(checklist) THEN held \cup {serial} ELSE held
            /\ invalid' = "none"
  /\ csv' = None
  /\ UNCHANGED <<idb, persisted, stored0, loadSt, getting,
                 tab, formCreatedAt, formStartAt, q>>
  /\ UNCHANGED <<comboVars, dashVars, csvVars>>
  /\ UNCHANGED <<otherVars, panelVars, checklist, codeVars>>

\* what the operator can leave or enter as the start time of a repair: the
\* pre-filled time, or a time before the session
StartInputs == {formStartAt, 0}

\* mutant: save without the test of serial
RepairSaveUnchecked(serial, startAt) ==
  /\ tab = "repair"
  /\ CanAppend
  /\ AppendRecord("repairs", [serial |-> serial, startAt |-> startAt])
  /\ formStartAt' = now
  /\ actions' = <<>>
  /\ codeValue' = <<>> /\ isCustom' = FALSE
  /\ alert' = "none"
  /\ csv' = None
  /\ invalid' = "none"
  /\ UNCHANGED <<idb, persisted, stored0, loadSt, getting,
                 tab, formCreatedAt, q>>
  /\ UNCHANGED <<choice, custom, dashVars, csvVars>>
  /\ UNCHANGED <<otherVars, panelVars, holdVars>>

\* RepairForm.save; it pre-fills the next startAt with the time of the save
RepairSave(serial, startAt) ==
  /\ tab = "repair"
  /\ IF serial = <<>>
       THEN /\ alert' = "Serial is required"
            /\ UNCHANGED <<data, reqQ, appended, now, formStartAt, actions, codeVars>>
       ELSE /\ CanAppend
            /\ AppendRecord("repairs", [serial |-> serial, startAt |-> startAt])
            /\ formStartAt' = now
            /\ actions' = <<>>
            /\ codeValue' = <<>> /\ isCustom' = FALSE
            /\ alert' = "none"
  /\ csv' = None
  /\ invalid' = "none"
  /\ UNCHANGED <<idb, persisted, stored0, loadSt, getting,
                 tab, formCreatedAt, q>>
  /\ UNCHANGED <<choice, custom, dashVars, csvVars>>
  /\ UNCHANGED <<otherVars, panelVars, holdVars>>

\* ---------------------------------------------------------- UiMultiCombo
\* the multi-select of RepairForm; its value is the form's actions.  Action
\* values are sequences of characters, as addCustom trims what was typed.
CUSTOM == "__custom__"
RESEAT_FFC == <<"R", "E", "S", "E", "A", "T", "_", "F", "F", "C">>
REPLACE_MB == <<"R", "E", "P", "L", "A", "C", "E", "_", "M", "B">>
\* the options the select is given (two of ACTION_CODES)
ActionCodes == <<RESEAT_FFC, REPLACE_MB>>
\* what can be typed into the custom box
CustomInputs == {<<" ">>, <<"x">>, <<"x", " ">>, RESEAT_FFC}

Includes(value, v) == \E i \in 1..Len(value) : value[i] = v

\* the options the select shows: those not yet in value
Available(value) == SelectSeq(ActionCodes, LAMBDA o : ~Includes(value, o))

ComboFrame ==
  /\ NoOutput
  /\ UNCHANGED <<idb, persisted, stored0, data, loadSt, reqQ, getting,
                 appended, tab, now, formCreatedAt, formStartAt, q>>
  /\ UNCHANGED <<dashVars, csvVars>>
  /\ UNCHANGED <<otherVars, panelVars, holdVars, codeVars>>

\* pick('') on the placeholder
PickPlaceholder ==
  /\ tab = "repair"
  /\ choice # ""
  /\ UNCHANGED comboVars
  /\ ComboFrame

\* pick(CUSTOM)
PickCustom ==
  /\ tab = "repair"
  /\ choice' = CUSTOM
  /\ UNCHANGED <<actions, custom>>
  /\ ComboFrame

\* pick(v) on one of the options shown
Pick(v) ==
  /\ tab = "repair"
  /\ Includes(Available(actions), v)
  /\ actions' = IF ~Includes(actions, v) THEN Append(actions, v) ELSE actions
  /\ choice' = ""
  /\ UNCHANGED custom
  /\ ComboFrame

\* typing into the custom box, shown while choice is CUSTOM
SetCustom(text) ==
  /\ tab = "repair"
  /\ choice = CUSTOM
  /\ custom' = text
  /\ UNCHANGED <<actions, choice>>
  /\ ComboFrame

\* mutant: addCustom without the includes test
AddCustomAlways ==
  /\ tab = "repair"
  /\ choice = CUSTOM
  /\ IF Trim(custom) = <<>>
       THEN UNCHANGED comboVars
       ELSE /\ actions' = Append(actions, Trim(custom))
            /\ custom' = <<>>
            /\ choice' = ""
  /\ ComboFrame

\* the Add button, shown while choice is CUSTOM
AddCustom ==
  /\ tab = "repair"
  /\ choice = CUSTOM
  /\ IF Trim(custom) = <<>>
       THEN UNCHANGED comboVars
       ELSE /\ actions' = IF ~Includes(actions, Trim(custom))
                            THEN Append(actions, Trim(custom)) ELSE actions
            /\ custom' = <<>>
            /\ choice' = ""
  /\ ComboFrame

\* the x button of a chip
Remove(item) ==
  /\ tab = "repair"
  /\ Includes(actions, item)
  /\ actions' = SelectSeq(actions, LAMBDA x : x # item)
  /\ UNCHANGED <<choice, custom>>
  /\ ComboFrame

\* ------------------------------------------------------------- navigation
\* nav button: setTab(t); the tab's component mounts with fresh state
SetTab(t) ==
  /\ t # tab
  /\ tab' = t
  /\ formCreatedAt' = IF t = "intake" THEN now ELSE NoTime
  /\ formStartAt' = IF t = "repair" THEN now ELSE NoTime
  /\ q' = <<>>
  /\ NoOutput
  /\ UNCHANGED <<idb, persisted, stored0, data, loadSt, reqQ, getting,
                 appended, now>>
  /\ actions' = <<>> /\ choice' = "" /\ custom' = <<>>
  /\ UNCHANGED <<dashVars, csvVars>>
  /\ authorized' = FALSE /\ inputKey' = ""
  /\ szText' = IF t = "admin" THEN JoinList(lists.sizes, <<Comma, " ">>) ELSE <<>>
  /\ srcText' = IF t = "admin" THEN JoinList(lists.sources, <<LineBreak>>) ELSE <<>>
  /\ reaText' = IF t = "admin" THEN JoinList(lists.reasons, <<LineBreak>>) ELSE <<>>
  /\ wrongTries' = 0
  /\ UNCHANGED otherVars
  /\ checklist' = AllPass
  /\ UNCHANGED held
  /\ codeValue' = <<>> /\ isCustom' = FALSE

\* ------------------------------------------------------------------ History
\* mutant: a History that sorts the repairs it was handed in place
SetQSorting(v) ==
  /\ tab = "history"
  /\ q' = v
  /\ data' = [data EXCEPT !.repairs = StableSort(@, RepairStarts(@))]
  /\ NoOutput
  /\ UNCHANGED <<idb, persisted, stored0, loadSt, reqQ, getting,
                 appended, tab, now, formCreatedAt, formStartAt>>
  /\ UNCHANGED <<comboVars, dashVars, csvVars>>
  /\ UNCHANGED <<otherVars, panelVars, holdVars, codeVars>>

\* search box onChange: setQ(e.target.value); the re-render computes list
\* and combinedRec from q, intakes and repairs
SetQ(v) ==
  /\ tab = "history"
  /\ q' = v
  /\ NoOutput
  /\ UNCHANGED <<idb, persisted, stored0, data, loadSt, reqQ, getting,
                 appended, tab, now, formCreatedAt, formStartAt>>
  /\ UNCHANGED <<comboVars, dashVars, csvVars>>
  /\ UNCHANGED <<otherVars, panelVars, holdVars, codeVars>>

\* History.exportCsv, then downloadCSV, which returns early on no rows
ExportCsv ==
  /\ tab = "history"
  /\ LET rows == ExportRows(data.intakes, data.repairs)
     IN csv' = IF rows = <<>> THEN None ELSE Some(rows)
  /\ alert' = "none"
  /\ invalid' = "none"
  /\ UNCHANGED <<idb, persisted, stored0, data, loadSt, reqQ, getting,
                 appended, tab, now, formCreatedAt, formStartAt, q>>
  /\ UNCHANGED <<comboVars, dashVars, csvVars>>
  /\ UNCHANGED <<otherVars, panelVars, holdVars, codeVars>>

\* downloadCombinedPDF(combinedRec), the Export Combined PDF button: the
\* document is written from the record and saved, or jsPDF throws and the
\* catch alerts
DownloadCombinedPDF ==
  /\ tab = "history"
  /\ CombinedRec(q, data.intakes, data.repairs) # None
  /\ alert' \in {"none", "PDF export failed."}
  /\ csv' = None
  /\ invalid' = "none"
  /\ UNCHANGED <<idb, persisted, stored0, data, loadSt, reqQ, getting,
                 appended, tab, now, formCreatedAt, formStartAt, q>>
  /\ UNCHANGED <<comboVars, dashVars, csvVars>>
  /\ UNCHANGED <<otherVars, panelVars, holdVars, codeVars>>

\* ---------------------------------------------------------------- Dashboard
\* one render of the Dashboard over its props
DashboardRender ==
  /\ tab = "dashboard"
  /\ kpi' = Some(Dashboard(props))
  /\ NoOutput
  /\ UNCHANGED <<idb, persisted, stored0, data, loadSt, reqQ, getting,
                 appended, tab, now, formCreatedAt, formStartAt, q>>
  /\ UNCHANGED <<comboVars, props, csvVars>>
  /\ UNCHANGED <<otherVars, panelVars, holdVars, codeVars>>

\* -------------------------------------------------------------- downloadCSV
\* downloadCSV(filename, rows): without rows it returns and makes no file
DownloadCSV ==
  /\ tab = "history"
  /\ dlText' = IF dlRows = <<>> THEN None ELSE Some(CsvText(dlRows))
  /\ NoOutput
  /\ UNCHANGED <<idb, persisted, stored0, data, loadSt, reqQ, getting,
                 appended, tab, now, formCreatedAt, formStartAt, q>>
  /\ UNCHANGED <<comboVars, dashVars, dlRows>>
  /\ UNCHANGED <<otherVars, panelVars, holdVars, codeVars>>

\* --------------------------------------------------------------- AdminPanel
PASS_KEY == "RokuRepair2025"
\* what can be typed into the pass-key box
KeyInputs == {"", "rokurepair2025", PASS_KEY}

\* a text of n nines
Nines(n) == [i \in 1..n |-> "9"]
\* what can be typed into the sizes box
SizeTexts ==
  {<<>>,
   <<Comma, "7", "x", LineBreak, "-", "5", " ", "x", Comma, " ", "4", "3">>,
   <<"5", "5", Comma>> \o Nines(OverflowDigits)}
\* what can be typed into the sources and reasons boxes
ListTexts ==
  {<<>>,
   <<" ", "a", Quote, " ", LineBreak, LineBreak, Backslash, "b">>}

AdminFrame ==
  /\ csv' = None /\ invalid' = "none"
  /\ UNCHANGED <<idb, persisted, stored0, data, loadSt, reqQ, getting,
                 appended, tab, now, formCreatedAt, formStartAt, q>>
  /\ UNCHANGED <<comboVars, dashVars, csvVars>>
  /\ UNCHANGED <<holdVars, codeVars, apartVars>>

\* pass-key box onChange
SetInputKey(k) ==
  /\ tab = "admin" /\ ~authorized
  /\ inputKey' = k
  /\ alert' = "none"
  /\ UNCHANGED <<authorized, szText, srcText, reaText, wrongTries>>
  /\ UNCHANGED listVars
  /\ AdminFrame

\* mutant: a checkKey that accepts whatever was typed
CheckKeyAny ==
  /\ tab = "admin" /\ ~authorized
  /\ authorized' = TRUE
  /\ alert' = "none"
  /\ UNCHANGED <<inputKey, szText, srcText, reaText, wrongTries>>
  /\ UNCHANGED listVars
  /\ AdminFrame

\* AdminPanel.checkKey, the Enter button
CheckKey ==
  /\ tab = "admin" /\ ~authorized
  /\ IF inputKey = PASS_KEY
       THEN /\ authorized' = TRUE
            /\ alert' = "none"
            /\ UNCHANGED wrongTries
       ELSE /\ alert' = "Invalid key."
            /\ wrongTries' = IF wrongTries < MaxTries THEN wrongTries + 1 ELSE wrongTries
            /\ UNCHANGED authorized
  /\ UNCHANGED <<inputKey, szText, srcText, reaText>>
  /\ UNCHANGED listVars
  /\ AdminFrame

\* the three textareas, shown once authorized
SetSzText(text) ==
  /\ tab = "admin" /\ authorized
  /\ szText' = text
  /\ alert' = "none"
  /\ UNCHANGED <<authorized, inputKey, srcText, reaText, wrongTries>>
  /\ UNCHANGED listVars
  /\ AdminFrame

SetSrcText(text) ==
  /\ tab = "admin" /\ authorized
  /\ srcText' = text
  /\ alert' = "none"
  /\ UNCHANGED <<authorized, inputKey, szText, reaText, wrongTries>>
  /\ UNCHANGED listVars
  /\ AdminFrame

SetReaText(text) ==
  /\ tab = "admin" /\ authorized
  /\ reaText' = text
  /\ alert' = "none"
  /\ UNCHANGED <<authorized, inputKey, szText, srcText, wrongTries>>
  /\ UNCHANGED listVars
  /\ AdminFrame

\* the three write effects of App: localStorage.setItem(name, JSON.stringify(..))
Persist(ls0) == [name \in ListNames |-> Some(Stringify(ls0[name]))]

\* AdminPanel.save, the Save button: App.onSave sets the three lists, and the
\* re-render runs their write effects
AdminSave ==
  /\ tab = "admin" /\ authorized
  /\ lists' = [sizes |-> ParseSizes(szText),
               sources |-> ParseList(srcText),
               reasons |-> ParseList(reaText)]
  /\ ls' = Persist(lists')
  /\ alert' = "Admin lists saved"
  /\ UNCHANGED startup
  /\ UNCHANGED panelVars
  /\ AdminFrame

\* the page is loaded again in a browser without IndexedDB: App mounts anew
\* over what localStorage holds
Reload ==
  /\ ~idb
  /\ startup' = [entries |-> ls,
                 lists |-> [name \in ListNames |-> Startup(name, ls[name])]]
  /\ lists' = startup'.lists
  /\ ls' = Persist(lists')
  /\ tab' = "intake"
  /\ data' = [k \in Keys |-> Initial]
  /\ appended' = [k \in Keys |-> <<>>]
  /\ formCreatedAt' = now
  /\ formStartAt' = NoTime
  /\ q' = <<>>
  /\ NoOutput
  /\ actions' = <<>> /\ choice' = "" /\ custom' = <<>>
  /\ authorized' = FALSE /\ inputKey' = ""
  /\ szText' = <<>> /\ srcText' = <<>> /\ reaText' = <<>>
  /\ wrongTries' = 0
  /\ checklist' = AllPass
  /\ held' = {}
  /\ codeValue' = <<>> /\ isCustom' = FALSE
  /\ UNCHANGED <<idb, persisted, stored0, loadSt, reqQ, getting, now>>
  /\ UNCHANGED <<dashVars, csvVars, apartVars>>

\* ------------------------------------------------------------------ UiCombo
\* the failure-code box of RepairForm: a select over options with a last
\* entry 'Custom…', and a text input shown while isCustom
PSU_NO_POWER == <<"P", "S", "U", "_", "N", "O", "_", "P", "O", "W", "E", "R">>
HDMI_FAIL == <<"H", "D", "M", "I", "_", "F", "A", "I", "L">>
\* the options the select is given (two of FAILURE_CODES)
FailureOptions == <<PSU_NO_POWER, HDMI_FAIL>>
\* what can be typed into the text input
CodeInputs == {<<>>, <<"x">>, HDMI_FAIL}

\* the effect of UiCombo on [value, options], run after a render in which
\* value changed; options is the same array in every render
ValueEffect(value) == value # <<>> /\ ~Includes(FailureOptions, value)

\* isCustom after onSelect or onChange set it to asked and value to next:
\* the effect runs when value changed, and overrides
AfterRender(asked, next) == IF next # codeValue THEN ValueEffect(next) ELSE asked

UiFrame ==
  /\ NoOutput
  /\ UNCHANGED <<idb, persisted, stored0, data, loadSt, reqQ, getting,
                 appended, tab, now, formCreatedAt, formStartAt, q>>
  /\ UNCHANGED <<comboVars, dashVars, csvVars>>
  /\ UNCHANGED <<otherVars, panelVars, holdVars>>

\* onSelect(CUSTOM): the select offers 'Custom…' whenever it is not the
\* entry shown
OnSelectCustom ==
  /\ tab = "repair"
  /\ ~isCustom
  /\ codeValue' = <<>>
  /\ isCustom' = AfterRender(TRUE, <<>>)
  /\ UiFrame

\* onSelect(v) on an enumerated option
OnSelect(v) ==
  /\ tab = "repair"
  /\ codeValue' = v
  /\ isCustom' = AfterRender(FALSE, v)
  /\ UiFrame

\* the text input, rendered while isCustom: onChange sets the value
OnCustomChange(text) ==
  /\ tab = "repair"
  /\ isCustom
  /\ codeValue' = text
  /\ isCustom' = AfterRender(isCustom, text)
  /\ UiFrame

\* ------------------------------------------------------------- local proxy
\* scripts/local-proxy.cjs.  Each request has its own closure (body, res);
\* every callback of the handler is one step.  A body is a sequence of bytes
\* that arrives in chunks; the text decoded from it is a sequence of
\* characters.  Bytes: "a" (a one-byte character), "C3" then "A9" (the two
\* bytes of one character).  rest: the bytes the client has yet to deliver,
\* chunks: the chunks delivered, body: the handler's `body`.  stage: none, reading (listeners set), rejected
\* (answered 404, body ignored), forwarding (fetch pending), done, aborted.
MethodInputs == {"POST", "GET"}
UrlInputs == {<<"/", "f", "l", "o", "w">>,
              <<"/", "f", "l", "o", "w", "?", "x">>,
              <<"/", "f", "l", "o", "w", "/">>}
\* request bodies: UTF-8 texts
BodyInputs == {<<>>, <<"a", "C3", "A9">>, <<"C3", "A9", "a">>}
FlowPath == <<"/", "f", "l", "o", "w">>

\* url.parse(req.url).pathname: the url up to its query or fragment
Pathname(u) == SubSeq(u, 1, GapLength(u, {"?", "#"}))

TwoByteChar == "C3A9"
Replacement == "FFFD"

\* Buffer.prototype.toString('utf8'), what `body += c` applies to a chunk:
\* a sequence that is cut off or out of place decodes to U+FFFD
RECURSIVE Utf8Decode(_)
Utf8Decode(bytes) ==
  IF bytes = <<>> THEN <<>>
  ELSE IF Head(bytes) = "a" THEN <<"a">> \o Utf8Decode(Tail(bytes))
  ELSE IF Head(bytes) = "C3" /\ Len(bytes) >= 2 /\ bytes[2] = "A9"
    THEN <<TwoByteChar>> \o Utf8Decode(SubSeq(bytes, 3, Len(bytes)))
  ELSE <<Replacement>> \o Utf8Decode(Tail(bytes))

\* the bytes fetch sends for a string body
RECURSIVE Utf8Encode(_)
Utf8Encode(chars) ==
  IF chars = <<>> THEN <<>>
  ELSE (CASE Head(chars) = "a" -> <<"a">>
          [] Head(chars) = TwoByteChar -> <<"C3", "A9">>
          [] Head(chars) = Replacement -> <<"EF", "BF", "BD">>)
       \o Utf8Encode(Tail(chars))

\* what the target answers
TargetStatuses == {200, 500}
TargetTexts == {<<"o", "k">>}
Response(status, text) == [status |-> status, text |-> text]

ProxyFrame ==
  /\ NoOutput
  /\ UNCHANGED <<idb, persisted, stored0, data, loadSt, reqQ, getting,
                 appended, tab, now, formCreatedAt, formStartAt, q>>
  /\ UNCHANGED <<comboVars, dashVars, csvVars>>
  /\ UNCHANGED <<listVars, panelVars, holdVars, codeVars, cloudVars, flowVars>>

\* the request handler: 404 unless POST /flow, else the listeners are set
Request(id, method, u, bytes) ==
  /\ conn[id].stage = "none"
  /\ conn' = [conn EXCEPT ![id] =
       IF method # "POST" \/ Pathname(u) # FlowPath
         THEN [conn[id] EXCEPT !.stage = "rejected", !.method = method, !.url = u,
                 !.rest = bytes,
                 !.answers = <<Response(404, <<"N", "o", "t", " ", "f", "o", "u", "n", "d">>)>>]
         ELSE [conn[id] EXCEPT !.stage = "reading", !.method = method, !.url = u,
                 !.rest = bytes]]
  /\ ProxyFrame

\* req 'data' with the next n bytes as chunk c: body += c.  The stream cuts
\* chunks where the network did.  A rejected request has no listener: its
\* chunks arrive and are dropped.
Data(id, n) ==
  LET c == SubSeq(conn[id].rest, 1, n)
      left == SubSeq(conn[id].rest, n + 1, Len(conn[id].rest))
  IN
  /\ conn[id].stage \in {"reading", "rejected"}
  /\ n \in 1..Len(conn[id].rest)
  /\ Len(conn[id].chunks) + 1 < MaxChunks \/ n = Len(conn[id].rest)
  /\ conn' = [conn EXCEPT ![id] =
       IF conn[id].stage = "reading"
         THEN [conn[id] EXCEPT !.rest = left,
                               !.chunks = Append(conn[id].chunks, c),
                               !.body = conn[id].body \o Utf8Decode(c)]
         ELSE [conn[id] EXCEPT !.rest = left,
                               !.chunks = Append(conn[id].chunks, c)]]
  /\ ProxyFrame

\* the client goes away before the request is complete
Abort(id) ==
  /\ conn[id].stage = "reading"
  /\ conn' = [conn EXCEPT ![id].stage = "aborted"]
  /\ ProxyFrame

\* req 'end': the request is complete; fetch(TARGET, {method: 'POST', body})
End(id) ==
  /\ conn[id].stage = "reading"
  /\ conn[id].rest = <<>>
  /\ conn' = [conn EXCEPT ![id] =
       [conn[id] EXCEPT !.stage = "forwarding",
                        !.forwarded = Some(Utf8Encode(conn[id].body))]]
  /\ ProxyFrame

\* fetch resolves and resp.text() is read: writeHead(resp.status), end(text)
FetchResponds(id, status, text) ==
  /\ conn[id].stage = "forwarding"
  /\ conn' = [conn EXCEPT ![id] =
       [conn[id] EXCEPT !.stage = "done", !.target = Some(Response(status, text)),
                        !.answers = Append(conn[id].answers, Response(status, text))]]
  /\ ProxyFrame

\* fetch or resp.text() rejects: the catch answers 502
FetchThrows(id) ==
  /\ conn[id].stage = "forwarding"
  /\ conn' = [conn EXCEPT ![id] =
       [conn[id] EXCEPT !.stage = "done",
          !.answers = Append(conn[id].answers,
                        Response(502, <<"B", "a", "d", " ", "G", "a", "t", "e", "w", "a", "y", " ", "(", "p", "r", "o", "x", "y", ")">>))]]
  /\ ProxyFrame

\* -------------------------------------------------------------- cloud saves
\* firebase.ts.  A save is an async function: each step runs from one await
\* to the next.  stage: none, uploadBytes (awaiting uploadBytes),
\* getDownloadURL (awaiting it), addDoc (awaiting addDoc), written, rejected
\* (the promise of the save rejected).  pos: the place in photos the loop of
\* normalizePhotos is at; idx: its counter; ref: the path of the upload in
\* flight.  bucket: the uploads Storage has taken; docs: the documents of
\* Firestore, each with the save that wrote it.
INTAKES == <<"i", "n", "t", "a", "k", "e", "s">>
REPAIRS == <<"r", "e", "p", "a", "i", "r", "s">>
Unknown == <<"u", "n", "k", "n", "o", "w", "n">>
DataPrefix == <<"d", "a", "t", "a", ":">>
HttpPrefix == <<"h", "t", "t", "p">>

StartsWith(s, prefix) ==
  Len(s) >= Len(prefix) /\ SubSeq(s, 1, Len(prefix)) = prefix

\* photo entries: two data URLs, a data URL without a comma, an https link,
\* a blob: URL and the empty string
DataA == DataPrefix \o <<",", "Q", "Q">>
DataB == DataPrefix \o <<";", "b", "a", "s", "e", "6", "4", ",", "Q", "g">>
DataNoComma == DataPrefix \o <<"Q", "Q">>
HttpLink == <<"h", "t", "t", "p", "s", ":", "/", "/", "x">>
BlobLink == <<"b", "l", "o", "b", ":", "x">>
\* payloads: without serial and photos, and with them
Payloads ==
  {[serial |-> <<>>, photos |-> <<>>],
   [serial |-> <<>>, photos |-> <<HttpLink, DataB, <<>>, DataA>>],
   [serial |-> <<"A", "1">>, photos |-> <<DataA, HttpLink, BlobLink, DataB>>],
   [serial |-> <<"A", "1">>, photos |-> <<DataA, DataNoComma>>]}

\* `${folder}/${serial || "unknown"}/${Date.now()}_${idx}.jpg`
UploadPath(folder, serial, at, idx) ==
  folder \o <<"/">> \o (IF serial = <<>> THEN Unknown ELSE serial) \o <<"/">>
    \o NumberToString(at) \o <<"_">> \o NumberToString(idx)
    \o <<".", "j", "p", "g">>

\* getDownloadURL(ref): an https URL of the object at the path (host and
\* token left out)
DownloadURL(path) == <<"h", "t", "t", "p", "s", ":", "/", "/">> \o path

\* dataURLtoBlob throws 'Invalid data URL' when split(',') gives one piece
SplitsInTwo(dataURL) == \E i \in 1..Len(dataURL) : dataURL[i] = ","

\* normalizePhotos from the place r.pos up to its next await, at time `at`:
\* the loop pushes http entries, skips the others, and at a data URL calls
\* uploadPhotoAndGetURL, which throws or awaits uploadBytes; after the loop
\* the save awaits addDoc
RECURSIVE RunLoop(_, _)
RunLoop(r, at) ==
  IF r.pos > Len(r.photos) THEN [r EXCEPT !.stage = "addDoc"]
  ELSE LET p == r.photos[r.pos]
       IN IF StartsWith(p, DataPrefix)
            THEN IF SplitsInTwo(p)
                   THEN [r EXCEPT !.stage = "uploadBytes", !.idx = r.idx + 1,
                                  !.ref = UploadPath(r.folder, r.serial, at, r.idx)]
                   ELSE [r EXCEPT !.stage = "rejected", !.idx = r.idx + 1]
          ELSE IF StartsWith(p, HttpPrefix)
            THEN RunLoop([r EXCEPT !.results = Append(r.results, p),
                                   !.pos = r.pos + 1], at)
          ELSE RunLoop([r EXCEPT !.pos = r.pos + 1], at)

CloudFrame ==
  /\ NoOutput
  /\ UNCHANGED <<idb, persisted, stored0, data, loadSt, reqQ, getting,
                 appended, tab, formCreatedAt, formStartAt, q>>
  /\ UNCHANGED <<comboVars, dashVars, csvVars>>
  /\ UNCHANGED <<listVars, panelVars, holdVars, codeVars, conn, flowVars>>

\* Date.now() read by a step
Clock(at) == at \in now..MaxStamp /\ at <= now + 1 /\ now' = at

\* the calls are numbered in the order they are made
SaveCloud(id, folder, payload, at) ==
  /\ saves[id].stage = "none"
  /\ \A earlier \in 1..(id - 1) : saves[earlier].stage # "none"
  /\ Clock(at)
  /\ saves' = [saves EXCEPT ![id] =
       RunLoop([NoSave EXCEPT !.folder = folder, !.serial = payload.serial,
                              !.photos = payload.photos], at)]
  /\ UNCHANGED <<bucket, docs>>
  /\ CloudFrame

saveIntakeCloud(id, payload, at) == SaveCloud(id, INTAKES, payload, at)
saveRepairCloud(id, payload, at) == SaveCloud(id, REPAIRS, payload, at)

\* uploadBytes(ref, blob) resolves: Storage holds the photo at the path
UploadBytesResolves(id) ==
  /\ saves[id].stage = "uploadBytes"
  /\ bucket' = bucket \cup {[path |-> saves[id].ref,
                               data |-> saves[id].photos[saves[id].pos]]}
  /\ saves' = [saves EXCEPT ![id] = [saves[id] EXCEPT !.stage = "getDownloadURL"]]
  /\ UNCHANGED <<docs, now>>
  /\ CloudFrame

\* getDownloadURL(ref) resolves: results.push(url), and the loop goes on
GetDownloadURLResolves(id, at) ==
  /\ saves[id].stage = "getDownloadURL"
  /\ Clock(at)
  /\ saves' = [saves EXCEPT ![id] =
       RunLoop([saves[id] EXCEPT
                  !.results = Append(saves[id].results, DownloadURL(saves[id].ref)),
                  !.pos = saves[id].pos + 1], at)]
  /\ UNCHANGED <<bucket, docs>>
  /\ CloudFrame

\* an upload whose failure is passed over: the loop goes on without the photo
UploadRejectsSkipped(id) ==
  /\ saves[id].stage \in {"uploadBytes", "getDownloadURL"}
  /\ saves' = [saves EXCEPT ![id] =
       RunLoop([saves[id] EXCEPT !.pos = saves[id].pos + 1], now)]
  /\ UNCHANGED <<bucket, docs, now>>
  /\ CloudFrame

\* uploadBytes or getDownloadURL rejects: nothing catches it, the save rejects
UploadRejects(id) ==
  /\ saves[id].stage \in {"uploadBytes", "getDownloadURL"}
  /\ saves' = [saves EXCEPT ![id] = [saves[id] EXCEPT !.stage = "rejected"]]
  /\ UNCHANGED <<bucket, docs, now>>
  /\ CloudFrame

\* addDoc resolves: {...payload, photos: photoURLs, createdAt} is written
AddDocResolves(id) ==
  /\ saves[id].stage = "addDoc"
  /\ docs' = docs \cup {[coll |-> saves[id].folder, serial |-> saves[id].serial,
                           photos |-> saves[id].results, save |-> id]}
  /\ saves' = [saves EXCEPT ![id] = [saves[id] EXCEPT !.stage = "written"]]
  /\ UNCHANGED <<bucket, now>>
  /\ CloudFrame

\* addDoc rejects
AddDocRejects(id) ==
  /\ saves[id].stage = "addDoc"
  /\ saves' = [saves EXCEPT ![id] = [saves[id] EXCEPT !.stage = "rejected"]]
  /\ UNCHANGED <<bucket, docs, now>>
  /\ CloudFrame

\* ------------------------------------------------------- Flow repair form
\* RepairForm.tsx and lib/submitRepair.ts.  onSubmit is an async function:
\* each step runs from one await to the next.  subs: the calls of onSubmit,
\* each with its stage (fetch: awaiting submitRepairViaFlow, text: awaiting
\* resp.text(), done), what the Flow did (flow, status) and, once done, the
\* sending and msg the call left behind.
\* msg: what it reports and the parts of its text
Submitted ==
  [kind |-> "submitted",
   message |-> <<"Check Excel (Repairs table) and the Photos folder.">>]
Failed(message) == [kind |-> "failed", message |-> message]

FlowStatuses == {400, 500}
\* why submitRepairViaFlow rejects: no FLOW_URL, or fetch fails
ThrowMessages == {<<"Missing REACT_APP_FLOW_URL in .env.local">>, <<"Failed to fetch">>}
\* resp.text() of a not-ok response; a rejection is caught as ""
ErrorTexts == {"", "BadRequest"}

\* e.currentTarget: the form while React dispatches the event to onSubmit,
\* null once the dispatch is over, which it is after any await
CurrentTarget(dispatching) == IF dispatching THEN Some("form") ELSE None

Submission(stage, flow, status) ==
  [stage |-> stage, flow |-> flow, status |-> status,
   left |-> [sending |-> TRUE, msg |-> None]]

FlowFrame ==
  /\ NoOutput
  /\ UNCHANGED <<idb, persisted, stored0, data, loadSt, reqQ, getting,
                 appended, tab, now, formCreatedAt, formStartAt, q>>
  /\ UNCHANGED <<comboVars, dashVars, csvVars>>
  /\ UNCHANGED <<listVars, panelVars, holdVars, codeVars, conn, cloudVars>>

\* the operator fills the inputs in
FillIn ==
  /\ fields = "blank"
  /\ fields' = "filled"
  /\ UNCHANGED <<sending, msg, subs>>
  /\ FlowFrame

\* the submit button, enabled unless sending, on a form whose required
\* inputs are filled: setMsg(null), setSending(true), new FormData(form) and
\* the call of submitRepairViaFlow
FlowSubmit ==
  /\ ~sending
  /\ fields = "filled"
  /\ Len(subs) < MaxSubmits
  /\ CurrentTarget(TRUE) # None
  /\ msg' = None
  /\ sending' = TRUE
  /\ subs' = Append(subs, Submission("fetch", "none", 0))
  /\ UNCHANGED fields
  /\ FlowFrame

\* how a call ends: catch and finally have run
Ended(i, flow, status, shown) ==
  /\ subs' = [subs EXCEPT ![i] =
       [stage |-> "done", flow |-> flow, status |-> status,
        left |-> [sending |-> FALSE, msg |-> Some(shown)]]]
  /\ msg' = Some(shown)
  /\ sending' = FALSE

\* the Flow answers ok: setMsg(submitted), then e.currentTarget.reset();
\* on a null currentTarget that throws, and the catch sets the failure
\* message over the one just set
FlowRespondsOk(i) ==
  /\ subs[i].stage = "fetch"
  /\ IF CurrentTarget(FALSE) # None
       THEN /\ Ended(i, "ok", 200, Submitted)
            /\ fields' = "blank"
       ELSE /\ Ended(i, "ok", 200,
                     Failed(<<"Cannot read properties of null (reading 'reset')">>))
            /\ UNCHANGED fields
  /\ FlowFrame

\* the Flow answers not ok: the call awaits resp.text()
FlowRespondsNotOk(i, status) ==
  /\ subs[i].stage = "fetch"
  /\ subs' = [subs EXCEPT ![i] = Submission("text", "notok", status)]
  /\ UNCHANGED <<sending, msg, fields>>
  /\ FlowFrame

\* resp.text() settles: throw new Error(`Flow returned ${status}. ${text}`)
TextSettles(i, text) ==
  /\ subs[i].stage = "text"
  /\ Ended(i, "notok", subs[i].status,
           Failed(<<"Flow returned", subs[i].status, text>>))
  /\ UNCHANGED fields
  /\ FlowFrame

\* submitRepairViaFlow rejects
SubmitThrows(i, message) ==
  /\ subs[i].stage = "fetch"
  /\ Ended(i, "threw", 0, Failed(message))
  /\ UNCHANGED fields
  /\ FlowFrame

\* ------------------------------------------------------------ specifications
\* the tabs that hold a form
FormTabs == {"intake", "repair"}

\* the whole application
Next ==
  \/ LoadOpenSuccess
  \/ LoadOpenFail
  \/ LoadGetSuccess
  \/ LoadGetFail
  \/ WritePut
  \/ WriteFail
  \/ \E s \in SerialInputs : IntakeSubmit(s)
  \/ \E s \in SerialInputs : \E t \in StartInputs : RepairSave(s, t)
  \/ \E t \in Tabs : SetTab(t)
  \/ \E v \in QueryInputs : SetQ(v)
  \/ ExportCsv

Spec == Init /\ [][Next]_vars

\* serials of the Intake submits the browser lets through; a submit it
\* refuses changes nothing that the store or the History tab reads
FilledSerials == SerialInputs \ {<<>>}

\* the record store and the forms that append to it, failures included;
\* the History tab only reads the collections and is left out
NextStore ==
  \/ LoadOpenSuccess
  \/ LoadOpenFail
  \/ LoadGetSuccess
  \/ LoadGetFail
  \/ WritePut
  \/ WriteFail
  \/ \E s \in FilledSerials : IntakeSubmit(s)
  \/ \E s \in FilledSerials : RepairSave(s, formStartAt)
  \/ \E t \in FormTabs : SetTab(t)

SpecStore == Init /\ [][NextStore]_vars

\* the record store when every open, get and put succeeds and every pending
\* callback is eventually delivered by the event loop
InitOK == Init /\ idb

NextOK ==
  \/ LoadOpenSuccess
  \/ LoadGetSuccess
  \/ WritePut
  \/ \E s \in FilledSerials : IntakeSubmit(s)
  \/ \E s \in SerialInputs : \E t \in StartInputs : RepairSave(s, t)
  \/ \E t \in FormTabs : SetTab(t)

SpecOK ==
  /\ InitOK
  /\ [][NextOK]_vars
  /\ WF_vars(LoadOpenSuccess)
  /\ WF_vars(LoadGetSuccess)
  /\ WF_vars(WritePut)

\* the History tab over every collection a session can hold; a failed load
\* or write leaves data as some successful run has it, so failures are left out
NextHistory ==
  \/ LoadOpenSuccess
  \/ LoadGetSuccess
  \/ WritePut
  \/ \E s \in FilledSerials : IntakeSubmit(s)
  \/ \E s \in SerialInputs : \E t \in StartInputs : RepairSave(s, t)
  \/ \E t \in Tabs : SetTab(t)
  \/ \E v \in QueryInputs : SetQ(v)
  \/ ExportCsv

SpecHistory == Init /\ [][NextHistory]_vars

\* the two forms, RepairForm with its multi-select, without the store
InitCombo == Init /\ ~idb

ActionValues == {ActionCodes[i] : i \in 1..Len(ActionCodes)} \cup {Trim(c) : c \in CustomInputs}

NextCombo ==
  \/ PickPlaceholder
  \/ PickCustom
  \/ \E v \in ActionValues : Pick(v)
  \/ \E text \in CustomInputs : SetCustom(text)
  \/ AddCustom
  \/ \E item \in ActionValues : Remove(item)
  \/ \E s \in SerialInputs : IntakeSubmit(s)
  \/ \E s \in SerialInputs : \E t \in StartInputs : RepairSave(s, t)
  \/ \E t \in FormTabs : SetTab(t)

SpecCombo == InitCombo /\ [][NextCombo]_vars

\* the application on tab t with no IndexedDB and nothing saved
OfflineAt(t) ==
  /\ idb = FALSE
  /\ persisted = [k \in Keys |-> None]
  /\ loadSt = [k \in Keys |-> "skipped"]
  /\ reqQ = <<>>
  /\ getting = FALSE
  /\ stored0 = persisted
  /\ data = [k \in Keys |-> Initial]
  /\ appended = [k \in Keys |-> <<>>]
  /\ tab = t
  /\ now = 1
  /\ formCreatedAt = NoTime
  /\ formStartAt = NoTime
  /\ q = <<>>
  /\ alert = "none"
  /\ csv = None
  /\ invalid = "none"
  /\ actions = <<>> /\ choice = "" /\ custom = <<>>

\* the Dashboard tab over lists of Intakes and Repairs and clock readings
InitDashboard ==
  /\ OfflineAt("dashboard")
  /\ Idle
  /\ \E t \in NowInputs :
       \/ \E r \in Lists(TimedRepairs, MaxTimed) :
            props = [intakes |-> <<>>, repairs |-> r, now |-> t]
       \/ \E r \in BulkRepairs \cup CodedRepairs :
            props = [intakes |-> <<>>, repairs |-> r, now |-> t]
       \/ \E i \in Lists(DashIntakes, MaxIntakes) :
            props = [intakes |-> i, repairs |-> <<>>, now |-> t]
  /\ kpi = None
  /\ dlRows = <<>> /\ dlText = None

NextDashboard == DashboardRender

SpecDashboard == InitDashboard /\ [][NextDashboard]_vars

\* downloadCSV, as the History tab calls it, over arrays of flat records
InitCsv ==
  /\ OfflineAt("history")
  /\ Idle
  /\ props = NoProps /\ kpi = None
  /\ dlRows \in RowsInputs
  /\ dlText = None

NextCsv == DownloadCSV

SpecCsv == InitCsv /\ [][NextCsv]_vars

\* what localStorage can hold under a list's name when App starts: no entry,
\* the empty string, a list as App wrote it, such a text cut short, a list
\* written with whitespace
Truncated(text) == SubSeq(text, 1, Len(text) - 1)
SizeEntries ==
  {None, Some(<<>>),
   Some(Stringify(Arr(<<>>))),
   Some(Stringify(Arr(<<Num(32), Num(43)>>))),
   Some(Truncated(Stringify(Arr(<<Num(32), Num(43)>>)))),
   Some(<<"[", " ", "7", LineBreak, "]">>)}
TextEntries ==
  {None,
   Some(Stringify(Arr(<<Str(<<"a", Quote>>), Str(<<Backslash, "b">>)>>))),
   Some(Truncated(Stringify(Arr(<<Str(<<"a", Quote>>)>>))))}
\* the code of the three lists is the same: reasons starts from fewer cases
EntryInputs == [sizes : SizeEntries, sources : TextEntries, reasons : {None}]

\* one session of the Admin tab, from any entries in localStorage
InitAdmin ==
  /\ OfflineAt("intake")
  /\ Unmounted
  /\ \E entries \in EntryInputs : StartedFrom(entries)
  /\ NoPanel
  /\ NoHold
  /\ NoCode
  /\ NoTraffic
  /\ NoCloud
  /\ NoFlow

AdminTabs == {"intake", "admin"}

NextAdmin ==
  \/ \E t \in AdminTabs : SetTab(t)
  \/ \E k \in KeyInputs : SetInputKey(k)
  \/ CheckKey
  \/ \E text \in SizeTexts : SetSzText(text)
  \/ \E text \in ListTexts : SetSrcText(text)
  \/ \E text \in ListTexts : SetReaText(text)
  \/ AdminSave

SpecAdmin == InitAdmin /\ [][NextAdmin]_vars

\* the Admin tab over sessions: the page can be loaded again at any time
NextReload ==
  \/ NextAdmin
  \/ Reload

SpecReload == InitAdmin /\ [][NextReload]_vars

\* the application on tab t with the collections d loaded from IndexedDB and
\* stored there, and no request pending
LoadedAt(t, d) ==
  /\ idb = TRUE
  /\ persisted = [k \in Keys |-> Some(d[k])]
  /\ loadSt = [k \in Keys |-> "loaded"]
  /\ reqQ = <<>>
  /\ getting = FALSE
  /\ stored0 = persisted
  /\ data = d
  /\ appended = [k \in Keys |-> <<>>]
  /\ tab = t
  /\ now = 1
  /\ formCreatedAt = NoTime
  /\ formStartAt = NoTime
  /\ q = <<>>
  /\ alert = "none"
  /\ csv = None
  /\ invalid = "none"
  /\ actions = <<>> /\ choice = "" /\ custom = <<>>

\* Intakes and Repairs of two serials, out of order in time, with and
\* without a hold
ViewIntakes ==
  {[serial |-> <<"a">>, createdAt |-> DashToday, checklist |-> Checklist("Fail", "Pass")],
   [serial |-> <<"a">>, createdAt |-> DashToday - 1, checklist |-> Checklist("Pass", "Pass")]}
ViewRepairs ==
  {DashRepair(<<"a">>, DashToday, "Repaired", <<"A">>),
   DashRepair(<<"a">>, DashToday - 1, "Scrap", <<"7">>),
   DashRepair(<<"b">>, DashToday - 1, "Repaired", <<"A">>)}

\* the read-only tabs over loaded collections: App hands the Dashboard and
\* History its intakes and repairs as they are
InitViews ==
  /\ \E i \in Lists(ViewIntakes, MaxIntakes) : \E r \in Lists(ViewRepairs, MaxTimed) :
       /\ LoadedAt("history", [intakes |-> i, repairs |-> r])
       /\ props = [intakes |-> i, repairs |-> r, now |-> DashToday]
  /\ kpi = None
  /\ dlRows = <<>> /\ dlText = None
  /\ Idle

ViewTabs == {"history", "dashboard"}

NextViews ==
  \/ \E t \in ViewTabs : SetTab(t)
  \/ \E v \in QueryInputs : SetQ(v)
  \/ ExportCsv
  \/ DownloadCombinedPDF
  \/ DashboardRender

SpecViews == InitViews /\ [][NextViews]_vars

\* the two forms with the checklist of the Intake form, without the store
NextHold ==
  \/ \E e \in ChecklistEdits : SetC(e[1], e[2])
  \/ \E s \in SerialInputs : IntakeSubmit(s)
  \/ \E s \in SerialInputs : \E t \in StartInputs : RepairSave(s, t)
  \/ \E t \in FormTabs : SetTab(t)

SpecHold == InitCombo /\ [][NextHold]_vars

\* RepairForm with its failure-code box, without the store
NextUi ==
  \/ OnSelectCustom
  \/ \E i \in 1..Len(FailureOptions) : OnSelect(FailureOptions[i])
  \/ \E text \in CodeInputs : OnCustomChange(text)
  \/ \E s \in SerialInputs : \E t \in StartInputs : RepairSave(s, t)
  \/ \E t \in FormTabs : SetTab(t)

SpecUi == InitCombo /\ [][NextUi]_vars

\* the proxy alone, serving MaxRequests requests
InitProxy == OfflineAt("intake") /\ Unmounted /\ Idle

NextProxy ==
  \/ \E id \in ReqIds : \E m \in MethodInputs : \E u \in UrlInputs :
       \E bytes \in BodyInputs : Request(id, m, u, bytes)
  \/ \E id \in ReqIds : \E n \in 1..MaxBody : Data(id, n)
  \/ \E id \in ReqIds : Abort(id)
  \/ \E id \in ReqIds : End(id)
  \/ \E id \in ReqIds : \E s \in TargetStatuses : \E text \in TargetTexts :
       FetchResponds(id, s, text)
  \/ \E id \in ReqIds : FetchThrows(id)

SpecProxy == InitProxy /\ [][NextProxy]_vars

\* the cloud saves alone, MaxSaves of them at once
InitCloud == OfflineAt("intake") /\ Unmounted /\ Idle

NextCloud ==
  \/ \E id \in SaveIds : \E payload \in Payloads : \E at \in 0..MaxStamp :
       saveIntakeCloud(id, payload, at)
  \/ \E id \in SaveIds : \E payload \in Payloads : \E at \in 0..MaxStamp :
       saveRepairCloud(id, payload, at)
  \/ \E id \in SaveIds : UploadBytesResolves(id)
  \/ \E id \in SaveIds : \E at \in 0..MaxStamp : GetDownloadURLResolves(id, at)
  \/ \E id \in SaveIds : UploadRejects(id)
  \/ \E id \in SaveIds : AddDocResolves(id)
  \/ \E id \in SaveIds : AddDocRejects(id)

SpecCloud == InitCloud /\ [][NextCloud]_vars

\* the Flow repair form alone
InitFlow == OfflineAt("intake") /\ Unmounted /\ Idle

NextFlow ==
  \/ FillIn
  \/ FlowSubmit
  \/ \E i \in 1..MaxSubmits : i <= Len(subs) /\ FlowRespondsOk(i)
  \/ \E i \in 1..MaxSubmits : \E s \in FlowStatuses :
       i <= Len(subs) /\ FlowRespondsNotOk(i, s)
  \/ \E i \in 1..MaxSubmits : \E text \in ErrorTexts :
       i <= Len(subs) /\ TextSettles(i, text)
  \/ \E i \in 1..MaxSubmits : \E m \in ThrowMessages :
       i <= Len(subs) /\ SubmitThrows(i, m)

SpecFlow == InitFlow /\ [][NextFlow]_vars

TypeOK ==
  /\ tab \in Tabs \cup {"dashboard", "admin"}
  /\ now \in 1..(MaxAppends + 1)
  /\ q \in QueryInputs

\* ------------------------------------------------------------------ claims
Last(s) == s[Len(s)]
IsSuffix(t, s) ==
  Len(t) <= Len(s) /\ SubSeq(s, Len(s) - Len(t) + 1, Len(s)) = t
Count(x, s) == Cardinality({i \in 1..Len(s) : s[i] = x})
\* a and b hold the same items, each as often
SameItems(a, b) ==
  Len(a) = Len(b) /\ \A i \in 1..Len(a) : Count(a[i], a) = Count(a[i], b)
\* a sequence of numbers that never decreases
Ascending(s) == \A i, j \in 1..Len(s) : i < j => s[i] <= s[j]
Blank(s) == \A i \in 1..Len(s) : s[i] = " "
NoPriorData == \A k \in Keys : stored0[k] \in {None, Some(<<>>)}

\* C1: the in-memory collection always ends with every record appended in
\* this session, in append order, and once the stored collection has been
\* loaded it is exactly the stored collection followed by those records.
C1_NoAppendLost ==
  \A k \in Keys :
    /\ IsSuffix(appended[k], data[k])
    /\ loadSt[k] = "loaded" => data[k] = ValueOf(stored0[k]) \o appended[k]

\* C2: when every open and write succeeds, from some point on the value
\* stored under each key is the complete current in-memory collection.
C2_LatestSnapshotStored ==
  <>[](\A k \in Keys : persisted[k] = Some(data[k]))

C2_Witness ==
  /\ reqQ = <<>>
  /\ Len(appended.intakes) >= 1
  /\ stored0.intakes # None /\ ValueOf(stored0.intakes) # <<>>
  /\ persisted.intakes = Some(data.intakes)
  /\ data.intakes = ValueOf(stored0.intakes) \o appended.intakes

C4_IntakeThenRepair ==
  (/\ NoPriorData
   /\ Len(data.intakes) = 1 /\ appended.intakes = data.intakes
   /\ Len(data.repairs) = 1 /\ appended.repairs = data.repairs
   /\ data.intakes[1].serial = data.repairs[1].serial
   /\ tab = "history" /\ q = data.intakes[1].serial)
  => LET c == CombinedRec(q, data.intakes, data.repairs)
     IN /\ c # None
        /\ ValueOf(c).intake = Some(data.intakes[1])
        /\ ValueOf(c).repairs = data.repairs

\* a put request leaves the queue without its value reaching the store
WriteFailed ==
  /\ HeadIs("put")
  /\ reqQ' = Tail(reqQ)
  /\ persisted'[Head(reqQ).key] # Some(Head(reqQ).value)

\* C5: a step in which a write fails changes no in-memory collection and
\* shows no alert, and every append, before or after a failure, extends the
\* in-memory collection by the appended record.
C5_FailureSwallowed ==
  [][/\ WriteFailed => data' = data /\ alert' = "none" /\ csv' = None
     /\ \A k \in Keys :
          appended'[k] # appended[k] => data'[k] = Append(data[k], Last(appended'[k]))
    ]_vars

\* every request was served, yet the store lacks both appended intakes: the
\* writes failed and the collection in memory went on growing
C5_Witness ==
  /\ reqQ = <<>>
  /\ stored0.intakes = None
  /\ persisted.intakes = Some(<<>>)
  /\ Len(data.intakes) = 2
  /\ data.intakes = appended.intakes

NumLoads(k) == Len(SelectSeq(reqQ, LAMBDA r : r.op = "load" /\ r.key = k))

\* C6: the load of a key is issued once and settles once; when it fails or
\* finds nothing stored, that step leaves the collection as it was and shows
\* no alert, so a collection nothing was appended to stays empty.
C6_LoadOnceOrEmpty ==
  /\ [](\A k \in Keys :
          /\ NumLoads(k) = IF loadSt[k] = "pending" THEN 1 ELSE 0
          /\ (loadSt[k] \in {"failed", "nothing"} /\ appended[k] = <<>>)
               => data[k] = <<>>)
  /\ [][\A k \in Keys :
          /\ loadSt[k] # "pending" => loadSt'[k] = loadSt[k]
          /\ (loadSt[k] = "pending" /\ loadSt'[k] \in {"failed", "nothing"})
               => data' = data /\ alert' = "none"
       ]_vars

C6_Witness ==
  /\ loadSt.intakes = "failed"
  /\ stored0.intakes # None /\ ValueOf(stored0.intakes) # <<>>
  /\ loadSt.repairs = "nothing"
  /\ data = [k \in Keys |-> <<>>]

\* C7: a CSV exported from History while a serial is looked up has rows only
\* for records with that serial.
C7_ExportOnlyLookedUp ==
  (csv # None /\ Trim(q) # <<>>)
  => \A i \in 1..Len(ValueOf(csv)) : ValueOf(csv)[i].serial = Trim(q)

\* the rows the History list must show for serial: one per matching record
MatchingRows(serial) ==
  [i \in 1..Len(BySerial(data.intakes, serial)) |->
     [type |-> "intake", when |-> BySerial(data.intakes, serial)[i].createdAt,
      data |-> BySerial(data.intakes, serial)[i]]]
  \o [i \in 1..Len(BySerial(data.repairs, serial)) |->
     [type |-> "repair", when |-> BySerial(data.repairs, serial)[i].startAt,
      data |-> BySerial(data.repairs, serial)[i]]]

\* C8 as stated: the History list holds exactly the Intakes and Repairs whose
\* serial equals the query, each once, in non-decreasing timestamp order.
C8_ListMatchesQuery ==
  tab = "history"
  => LET list == HistoryList(q, data.intakes, data.repairs)
     IN SameItems(list, MatchingRows(q)) /\ Ascending([i \in 1..Len(list) |-> list[i].when])

\* C8 amended: the History list holds exactly the Intakes and Repairs whose
\* serial equals the query with leading and trailing whitespace removed, each
\* once, in non-decreasing timestamp order.
C8_ListMatchesTrimmedQuery ==
  tab = "history"
  => LET list == HistoryList(q, data.intakes, data.repairs)
     IN SameItems(list, MatchingRows(Trim(q))) /\ Ascending([i \in 1..Len(list) |-> list[i].when])

\* the sort moves a Repair in front of an Intake created after it started
C8_Witness ==
  /\ tab = "history" /\ q = <<" ", "a">>
  /\ \E i \in 1..Len(data.intakes), r \in 1..Len(data.repairs) :
       /\ data.intakes[i].serial = <<"a">> /\ data.repairs[r].serial = <<"a">>
       /\ data.repairs[r].startAt < data.intakes[i].createdAt
  /\ \E i \in 1..Len(data.intakes) : data.intakes[i].serial = <<" ", "a">>

\* C9: for the looked-up serial the CombinedRecord's intake is a matching
\* Intake of greatest createdAt, absent when none matches, and its repairs
\* are all matching Repairs in ascending startAt order.
C9_CombinedRecord ==
  (tab = "history" /\ Trim(q) # <<>>)
  => LET c == CombinedRec(q, data.intakes, data.repairs)
         m == BySerial(data.intakes, Trim(q))
     IN /\ c # None
        /\ IF m = <<>>
             THEN ValueOf(c).intake = None
             ELSE /\ ValueOf(c).intake # None
                  /\ \E i \in 1..Len(m) : ValueOf(c).intake = Some(m[i])
                  /\ \A i \in 1..Len(m) :
                       m[i].createdAt <= ValueOf(ValueOf(c).intake).createdAt
        /\ SameItems(ValueOf(c).repairs, BySerial(data.repairs, Trim(q)))
        /\ Ascending([i \in 1..Len(ValueOf(c).repairs) |->
                        ValueOf(c).repairs[i].startAt])

\* two matching Intakes created at different times
C9_Witness ==
  /\ tab = "history" /\ q = <<"a">>
  /\ \E i, j \in 1..Len(data.intakes) :
       /\ data.intakes[i].serial = <<"a">> /\ data.intakes[j].serial = <<"a">>
       /\ data.intakes[i].createdAt < data.intakes[j].createdAt

\* C10: while the History query is empty or only whitespace, the list is
\* empty, there is no CombinedRecord, and no alert is shown.
C10_BlankQuery ==
  (tab = "history" /\ Blank(q))
  => /\ HistoryList(q, data.intakes, data.repairs) = <<>>
     /\ CombinedRec(q, data.intakes, data.repairs) = None
     /\ alert = "none"

C10_Witness ==
  /\ tab = "history" /\ q = <<" ">>
  /\ data.intakes # <<>> /\ data.repairs # <<>>

\* the Repairs whose startAt lies within the 30 days up to t
Within30Days(repairs, t) ==
  SelectSeq(repairs, LAMBDA r : t - WindowDays * DayLen <= r.startAt /\ r.startAt <= t)

\* n / d as a percentage, rounded to the nearest integer (a half rounds up)
RoundedPercent(n, d) == (2 * 100 * n + d) \div (2 * d)

NoFutureRepair == \A i \in 1..Len(props.repairs) : props.repairs[i].startAt <= props.now

\* C11: the rendered yield is an integer in 0..100, equal to
\* round(100 * repaired / (repaired + scrapped)) over the Repairs of the
\* 30-day window and to 0 when repaired + scrapped is 0; NTF and BER count
\* in neither term.  (Stated for props without a Repair later than now.)
C11_YieldRounded ==
  (kpi # None /\ NoFutureRepair)
  => LET window == Within30Days(props.repairs, props.now)
         repaired == Len(WithDisposition(window, "Repaired"))
         scrapped == Len(WithDisposition(window, "Scrap"))
     IN /\ ValueOf(kpi).yieldPct \in 0..100
        /\ ValueOf(kpi).yieldPct =
             IF repaired + scrapped = 0 THEN 0
             ELSE RoundedPercent(repaired, repaired + scrapped)

\* C12: the 30-day figures count only Repairs whose startAt lies within the
\* 30 days up to now, neither older nor later than now: yield and Pareto are
\* those of that window, and repeat repairs is the number of distinct
\* serials with more than one Repair in it.
C12_WindowUpToNow ==
  kpi # None
  => LET window == Within30Days(props.repairs, props.now)
     IN /\ ValueOf(kpi).yieldPct = YieldPct(window, props.now)
        /\ ValueOf(kpi).pareto = Pareto(window, props.now)
        /\ ValueOf(kpi).repeatRepairs30d =
             Cardinality({s \in SerialsOf(window) : Len(BySerial(window, s)) > 1})

RECURSIVE SumCounts(_)
SumCounts(buckets) ==
  IF buckets = <<>> THEN 0 ELSE Head(buckets).count + SumCounts(Tail(buckets))

\* how many Repairs of the props started on local day d
StartedOn(d) ==
  Cardinality({i \in 1..Len(props.repairs) : DateOf(props.repairs[i].startAt) = d})

\* C13: the histogram has 7 buckets for the 7 consecutive local days ending
\* today, oldest first; a bucket counts the Repairs started on its day, so no
\* Repair is in two buckets, and the counts sum to the number of Repairs
\* started within those 7 days.
C13_HistogramBuckets ==
  kpi # None
  => LET days == ValueOf(kpi).days
         today == DateOf(props.now)
     IN /\ Len(days) = HistogramDays
        /\ \A p \in 1..Len(days) :
             /\ days[p].label = today - (HistogramDays - p)
             /\ days[p].count = StartedOn(days[p].label)
        /\ SumCounts(days) =
             Cardinality({i \in 1..Len(props.repairs) :
                            /\ DateOf(props.repairs[i].startAt) > today - HistogramDays
                            /\ DateOf(props.repairs[i].startAt) <= today})

\* three Repairs: one at the first midnight of the histogram, one just
\* before it, one later today
C13_Witness ==
  /\ kpi # None
  /\ Len(props.repairs) = 3
  /\ ValueOf(kpi).days[1].count = 1
  /\ ValueOf(kpi).days[HistogramDays].count = 1
  /\ SumCounts(ValueOf(kpi).days) = 2

\* the failure codes of the Repairs the Dashboard takes as in-window
WindowCodes == {r.failureCode : r \in {Last30(props.repairs, props.now)[i] :
                                         i \in 1..Len(Last30(props.repairs, props.now))}}
CodeCount(c) == Len(WithFailureCode(Last30(props.repairs, props.now), c))

FirstMet(c) == CHOOSE i \in 1..Len(props.repairs) :
                 /\ props.repairs[i].failureCode = c
                 /\ \A j \in 1..(i - 1) : props.repairs[j].failureCode # c

\* C15: two listed codes with equal counts stand in the order in which they
\* were first met in the Repair list.  (Stated for props whose Repairs are
\* all in the window.)
C15_TiesInEncounterOrder ==
  (kpi # None /\ Last30(props.repairs, props.now) = props.repairs)
  => LET pareto == ValueOf(kpi).pareto
     IN \A i, j \in 1..Len(pareto) :
          (i < j /\ pareto[i].count = pareto[j].count)
          => FirstMet(pareto[i].code) < FirstMet(pareto[j].code)

\* C16: open holds is the number of Intakes with "Fail" in at least one of
\* labels_match, safety_ok, ports_intact, power_symptom, esd_ok; each counts
\* once, whatever its 8 cosmetic and accessory fields hold.
C16_OpenHolds ==
  kpi # None
  => ValueOf(kpi).openHolds =
       Cardinality({i \in 1..Len(props.intakes) :
                      \/ props.intakes[i].checklist.labels_match = "Fail"
                      \/ props.intakes[i].checklist.safety_ok = "Fail"
                      \/ props.intakes[i].checklist.ports_intact = "Fail"
                      \/ props.intakes[i].checklist.power_symptom = "Fail"
                      \/ props.intakes[i].checklist.esd_ok = "Fail"})

\* one Intake failing only safety_ok and one failing only cosmetic_screen
C16_Witness ==
  /\ kpi # None
  /\ Len(props.intakes) = 2
  /\ props.intakes[1].checklist = [Checklist("Pass", "Pass") EXCEPT !.safety_ok = "Fail"]
  /\ props.intakes[2].checklist = [Checklist("Pass", "Pass") EXCEPT !.cosmetic_screen = "Fail"]
  /\ ValueOf(kpi).openHolds = 1

NoDuplicates(s) == \A i, j \in 1..Len(s) : i # j => s[i] # s[j]
RemoveAt(s, i) == SubSeq(s, 1, i - 1) \o SubSeq(s, i + 1, Len(s))

\* C17: the actions list never holds a value twice; a step that changes it
\* appends one value not yet present, or removes exactly one entry and keeps
\* the others in order, or is the form's reset on save or unmount; an
\* addCustom of a value already present leaves the list unchanged.
C17_SetOverInsertionOrder ==
  /\ [](NoDuplicates(actions))
  /\ [][/\ actions' # actions
          => \/ \E v \in ActionValues :
                  ~Includes(actions, v) /\ actions' = Append(actions, v)
             \/ \E i \in 1..Len(actions) : actions' = RemoveAt(actions, i)
             \/ actions' = <<>> /\ (tab' # tab \/ appended' # appended)
        /\ (/\ choice = CUSTOM /\ choice' = "" /\ tab' = tab
            /\ custom # <<>> /\ custom' = <<>>
            /\ Includes(actions, Trim(custom)))
          => actions' = actions
       ]_vars

\* a picked and a typed value are in the list, and the typed value is in
\* the custom box again, with a blank after it
C17_Witness ==
  /\ actions = <<REPLACE_MB, <<"x">>>>
  /\ choice = CUSTOM
  /\ custom = <<"x", " ">>

\* text split at every sep that stands outside double quotes
RECURSIVE SplitOutsideQuotes(_, _, _, _)
SplitOutsideQuotes(text, sep, part, quoted) ==
  IF text = <<>> THEN <<part>>
  ELSE IF Head(text) = sep /\ ~quoted
         THEN <<part>> \o SplitOutsideQuotes(Tail(text), sep, <<>>, quoted)
         ELSE SplitOutsideQuotes(Tail(text), sep, Append(part, Head(text)),
                                 IF Head(text) = Quote THEN ~quoted ELSE quoted)

\* key k is seen before place i of row r
SeenBefore(k, r, i) ==
  \/ \E r2 \in 1..(r - 1) : \E i2 \in 1..Len(dlRows[r2]) : dlRows[r2][i2].key = k
  \/ \E i2 \in 1..(i - 1) : dlRows[r][i2].key = k

\* the places (row, position) at which a key is seen for the first time
FirstPlaces ==
  {p \in UNION {{<<r, i>> : i \in 1..Len(dlRows[r])} : r \in 1..Len(dlRows)} :
     ~SeenBefore(dlRows[p[1]][p[2]].key, p[1], p[2])}

PlaceRank(p) ==
  Cardinality({o \in FirstPlaces : o[1] < p[1] \/ (o[1] = p[1] /\ o[2] < p[2])})

\* the keys of the rows, each once, in first-seen order
FirstSeenKeys ==
  [n \in 1..Cardinality(FirstPlaces) |->
     dlRows[(CHOOSE o \in FirstPlaces : PlaceRank(o) = n - 1)[1]]
           [(CHOOSE o \in FirstPlaces : PlaceRank(o) = n - 1)[2]].key]

\* the text of the value row r holds under key k, empty when it has none
CellText(r, k) ==
  IF \E i \in 1..Len(dlRows[r]) : dlRows[r][i].key = k
    THEN StringOf(dlRows[r][CHOOSE i \in 1..Len(dlRows[r]) : dlRows[r][i].key = k].value)
    ELSE <<>>

QuotesBefore(text, i) == Cardinality({j \in 1..(i - 1) : text[j] = Quote})

\* cell is text wrapped in double quotes, every quote of text doubled
IsQuoted(cell, text) ==
  /\ Len(cell) = Len(text) + QuotesBefore(text, Len(text) + 1) + 2
  /\ cell[1] = Quote /\ cell[Len(cell)] = Quote
  /\ \A i \in 1..Len(text) :
       /\ cell[1 + i + QuotesBefore(text, i)] = text[i]
       /\ text[i] = Quote => cell[2 + i + QuotesBefore(text, i)] = Quote

\* C18: the CSV of a non-empty array of flat records has a header line and
\* one line per row; the header is the keys of all rows in first-seen order;
\* a data line has one cell per header key, the row's value under that key
\* wrapped in double quotes with its quotes doubled, and "" for a key the row
\* lacks.  (Lines and cells end at a line break or comma outside quotes.)
C18_CsvText ==
  dlText # None
  => LET lines == SplitOutsideQuotes(ValueOf(dlText), LineBreak, <<>>, FALSE)
     IN /\ dlRows # <<>>
        /\ Len(lines) = 1 + Len(dlRows)
        /\ lines[1] = Join(FirstSeenKeys, Comma)
        /\ \A r \in 1..Len(dlRows) :
             IF FirstSeenKeys = <<>> THEN lines[r + 1] = <<>>
             ELSE LET cells == SplitOutsideQuotes(lines[r + 1], Comma, <<>>, FALSE)
                  IN /\ Len(cells) = Len(FirstSeenKeys)
                     /\ \A h \in 1..Len(cells) :
                          IsQuoted(cells[h], CellText(r, FirstSeenKeys[h]))

\* a row with a quote and a comma and line break in its values, then a row
\* that lacks the first key: header b,a and a second data line "","10"
C18_Witness ==
  /\ dlRows = <<<<[key |-> <<"b">>, value |-> Str(<<"x", Quote>>)],
                  [key |-> <<"a">>, value |-> Str(<<Comma, LineBreak>>)]>>,
                <<[key |-> <<"a">>, value |-> Num(10)]>>>>
  /\ dlText # None
  /\ Len(ValueOf(dlText)) = 22

\* a step in which a submit with an empty serial was turned down
EmptySerialSubmit == alert' = "Serial is required" \/ invalid' = "serial"

\* the collections and what the mounted form holds stay as they were
NothingSavedFormKept ==
  /\ data' = data /\ appended' = appended /\ reqQ' = reqQ
  /\ tab' = tab
  /\ formCreatedAt' = formCreatedAt /\ formStartAt' = formStartAt
  /\ actions' = actions /\ choice' = choice /\ custom' = custom

NonEmptySerials ==
  \A k \in Keys : \A i \in 1..Len(data[k]) : data[k][i].serial # <<>>

\* C19 as stated: every record has a non-empty serial; a submit with an
\* empty serial shows a blocking alert, appends nothing and leaves the form's
\* fields unchanged.
C19_EmptySerialAlert ==
  /\ [](NonEmptySerials)
  /\ [][EmptySerialSubmit => (alert' # "none" /\ NothingSavedFormKept)]_vars

\* C19 amended: every record has a non-empty serial; a Repair save with an
\* empty serial shows a blocking alert, an Intake submit with an empty serial
\* is stopped by the browser's required-field check without an alert, and
\* either appends nothing and leaves the form's fields unchanged.
C19_EmptySerialRefused ==
  /\ [](NonEmptySerials)
  /\ [][/\ EmptySerialSubmit
          => /\ NothingSavedFormKept
             /\ tab = "repair" => alert' = "Serial is required" /\ invalid' = "none"
             /\ tab = "intake" => alert' = "none" /\ invalid' = "serial"
        /\ \A k \in Keys :
             appended'[k] # appended[k] => Last(appended'[k]).serial # <<>>
       ]_vars

\* a Repair save with an empty serial has just been turned down, after an
\* earlier save, with an action still selected in the form
C19_Witness ==
  /\ alert = "Serial is required"
  /\ appended.repairs # <<>>
  /\ actions = <<RESEAT_FFC>>

\* C20: an Intake's createdAt is the time at which it was saved through the
\* form and does not change afterwards, so an Intake saved now is one of the
\* Intakes the Dashboard counts as processed today.
C20_CreatedAtIsSaveTime ==
  [][/\ appended'.intakes # appended.intakes
        => /\ Last(appended'.intakes).createdAt = now
           /\ ProcessedToday(<<Last(appended'.intakes)>>, now) = 1
     /\ \A i \in 1..Len(appended.intakes) :
          i <= Len(appended'.intakes)
          => appended'.intakes[i].createdAt = appended.intakes[i].createdAt
    ]_vars

\* lists that JSON text can denote: finite numbers, strings and null
JsonLists ==
  {Arr(<<>>), Arr(<<Num(32), Num(43)>>), Arr(<<Num(7)>>), Arr(<<Num(55), Null>>),
   Arr(<<Num(55)>>),
   Arr(<<Num(7), Num(-5), Num(43)>>),
   Arr(<<Str(<<"a", Quote>>), Str(<<Backslash, "b">>)>>),
   DEFAULT_TV_SIZES, DEFAULT_RETURN_SOURCE_SUGGESTIONS,
   DEFAULT_RETURN_REASON_SUGGESTIONS}
\* the text is the empty string or an array cut off before its end
FailsToParse(text) ==
  \/ text = <<>>
  \/ text[1] = "[" /\ \A i \in 1..Len(text) : text[i] # "]"
\* the array the text denotes: its items written between brackets and
\* separated by commas, whitespace apart
Denotes(text, list) ==
  LET inner == SubSeq(text, 2, Len(text) - 1)
      Solid(chars) == SelectSeq(chars, LAMBDA c : c \notin JsonWhitespace)
      written == Join([i \in 1..Len(list.items) |-> JsonScalar(list.items[i])], Comma)
  IN /\ Len(text) >= 2 /\ text[1] = "[" /\ text[Len(text)] = "]"
     /\ Solid(inner) = Solid(written)

\* C21: at startup each lookup list is the list written in its localStorage
\* entry when there is an entry that parses, and the hardcoded default when
\* there is no entry or the entry fails to parse.
C21_StartupLists ==
  \A name \in ListNames :
    LET entry == startup.entries[name]
    IN /\ entry = None => startup.lists[name] = Default(name)
       /\ (entry # None /\ FailsToParse(ValueOf(entry)))
            => startup.lists[name] = Default(name)
       /\ \A list \in JsonLists :
            (entry # None /\ Denotes(ValueOf(entry), list))
              => startup.lists[name] = list
       /\ \/ entry = None
          \/ FailsToParse(ValueOf(entry))
          \/ \E list \in JsonLists : Denotes(ValueOf(entry), list)

\* a startup that read one list from an entry written with whitespace and
\* fell back to the default for an entry that was cut short
C21_Witness ==
  /\ startup.entries.sizes = Some(<<"[", " ", "7", LineBreak, "]">>)
  /\ startup.lists.sizes = Arr(<<Num(7)>>)
  /\ startup.entries.sources # None
  /\ FailsToParse(ValueOf(startup.entries.sources))
  /\ startup.lists.sources = DEFAULT_RETURN_SOURCE_SUGGESTIONS

\* C22: an admin save replaces each in-memory list with the list parsed from
\* its box and stores its serialized text, so that the next startup, reading
\* the stored entries, gets exactly the saved lists in the same order.
C22_SaveRoundTrips ==
  [][AdminSave =>
       /\ lists' = [sizes |-> ParseSizes(szText),
                    sources |-> ParseList(srcText),
                    reasons |-> ParseList(reaText)]
       /\ \A name \in ListNames :
            /\ ls'[name] # None
            /\ Startup(name, ls'[name]) = lists'[name]]_vars

\* C23: within a session the lookup lists and their stored entries change
\* only in a save made in an Admin panel that holds the pass-key it accepted;
\* Enter with another key shows the alert 'Invalid key.' and leaves
\* authorization and the lists as they were; Enter with the pass-key is
\* accepted however many wrong keys were entered before.
C23_PassKeyGate ==
  /\ [](authorized => (tab = "admin" /\ inputKey = PASS_KEY))
  /\ [][/\ (lists' # lists \/ ls' # ls)
             => (authorized /\ authorized' /\ alert' = "Admin lists saved")
        /\ (CheckKey /\ inputKey # PASS_KEY)
             => (alert' = "Invalid key." /\ UNCHANGED <<authorized, lists, ls>>)
        /\ (CheckKey /\ inputKey = PASS_KEY) => authorized'
        /\ (tab = "admin" /\ ~authorized /\ inputKey = PASS_KEY) => ENABLED CheckKey]_vars

\* lists saved in a panel that was unlocked after MaxTries wrong keys
C23_Witness ==
  /\ authorized /\ wrongTries = MaxTries
  /\ alert = "Admin lists saved"
  /\ lists.sizes # startup.lists.sizes

\* the fields a saved record has: those of the form that saved it
IntakeFields == {"serial", "createdAt", "checklist"}
RepairFields == {"serial", "startAt", "disposition", "failureCode"}
SourceFieldsOnly(d) ==
  /\ \A i \in 1..Len(d.intakes) : DOMAIN d.intakes[i] = IntakeFields
  /\ \A i \in 1..Len(d.repairs) : DOMAIN d.repairs[i] = RepairFields

\* C24: rendering the Dashboard, typing a History query (which computes the
\* list and the combined record) and exporting leave the intakes and repairs
\* collections, in memory and as stored, exactly as they were, and no record
\* of them gains a field.
C24_ViewsReadOnly ==
  /\ [](/\ SourceFieldsOnly(data)
        /\ \A k \in Keys : persisted[k] = Some(data[k])
        /\ props.intakes = data.intakes /\ props.repairs = data.repairs)
  /\ [][UNCHANGED <<data, persisted>>]_vars

\* the Dashboard was rendered and a combined record computed over Repairs
\* that are stored out of time order
C24_Witness ==
  /\ kpi # None
  /\ ValueOf(kpi).openHolds > 0
  /\ Len(data.repairs) >= 2
  /\ data.repairs[1].startAt > data.repairs[2].startAt
  /\ CombinedRec(q, data.intakes, data.repairs) # None
  /\ Len(ValueOf(CombinedRec(q, data.intakes, data.repairs)).repairs) >= 2
  /\ csv # None

RepairsOf(serial, repairs) == Len(BySerial(repairs, serial))

\* C25: once an Intake with a Fail in a hold field has been saved for a
\* serial, with the alert that repair is blocked, no Repair of that serial is
\* appended any more.
C25_HeldSerialBlocked ==
  [][\A serial \in held :
       RepairsOf(serial, data'.repairs) = RepairsOf(serial, data.repairs)]_vars

\* C26: from mount onward the value stored under a key holds every record
\* that was stored under it before mount: the empty initial collection is
\* never written over stored data, whatever the order of the callbacks.
C26_StoredRecordsKept ==
  \A k \in Keys :
    stored0[k] # None =>
      /\ persisted[k] # None
      /\ \A i \in 1..Len(ValueOf(stored0[k])) :
           Includes(ValueOf(persisted[k]), ValueOf(stored0[k])[i])

\* the step selects an enumerated option
OptionSelected == \E i \in 1..Len(FailureOptions) : OnSelect(FailureOptions[i])

\* C27: selecting 'Custom…' in a combo box, whatever was selected or typed
\* before, leaves it in custom mode with an empty value and its text input
\* shown, and it stays in custom mode until an enumerated option is selected
\* (or the form is saved or left).
C27_CustomModeKept ==
  [][/\ OnSelectCustom => (isCustom' /\ codeValue' = <<>>)
     /\ (isCustom /\ ~isCustom' /\ tab' = tab /\ data' = data) => OptionSelected]_vars

\* the bytes of a request's body, as the client sent them
RECURSIVE Flatten(_)
Flatten(chunks) == IF chunks = <<>> THEN <<>> ELSE Head(chunks) \o Flatten(Tail(chunks))

\* C28: a request is answered at most once, and exactly once when it is
\* complete and its forwarding has settled: with 404 when its method is not
\* POST or its path is not /flow; otherwise the proxy sends the target the
\* body it received and answers with the target's status and body, or with
\* 502 when forwarding threw.
C28_AnsweredOnce ==
  \A id \in ReqIds :
    LET c == conn[id]
        flow == c.method = "POST" /\ Pathname(c.url) = FlowPath
    IN /\ Len(c.answers) <= 1
       /\ c.stage = "rejected" => (~flow /\ Len(c.answers) = 1 /\ c.answers[1].status = 404)
       /\ c.stage \in {"reading", "forwarding", "aborted"} => (flow /\ c.answers = <<>>)
       /\ c.forwarded # None => ValueOf(c.forwarded) = Flatten(c.chunks)
       /\ c.stage = "done" =>
            /\ flow /\ Len(c.answers) = 1
            /\ IF c.target # None THEN c.answers[1] = ValueOf(c.target)
                                  ELSE c.answers[1].status = 502

IsData(p) == StartsWith(p, DataPrefix)
IsHttp(p) == StartsWith(p, HttpPrefix)
\* the entries of a photos list that a document keeps a place for
KeptPhotos(photos) == SelectSeq(photos, LAMBDA p : IsData(p) \/ IsHttp(p))

\* C29: a document is written only by a save whose uploads have all
\* completed, and a rejected save has written none; the document's photos
\* are the data URLs and http entries of the input in their order, each data
\* URL replaced by the download URL of a completed upload of it, each http
\* entry as it was.
C29_PhotosBeforeDocument ==
  /\ \A id \in SaveIds :
       saves[id].stage # "written" => \A d \in docs : d.save # id
  /\ \A d \in docs :
       LET r == saves[d.save]
           kept == KeptPhotos(r.photos)
       IN /\ d.coll = r.folder
          /\ \A other \in docs : other.save = d.save => other = d
          /\ Len(d.photos) = Len(kept)
          /\ \A i \in 1..Len(kept) :
               IF IsData(kept[i])
                 THEN \E u \in bucket :
                        /\ u.data = kept[i]
                        /\ d.photos[i] = DownloadURL(u.path)
                 ELSE d.photos[i] = kept[i]

\* one save has written a document from data URLs, a link and a dropped
\* entry, and another has rejected after an upload of its own completed
C29_Witness ==
  /\ \E d \in docs :
       /\ Len(d.photos) = 3
       /\ Len(saves[d.save].photos) = 4
  /\ \E id \in SaveIds :
       /\ saves[id].stage = "rejected"
       /\ saves[id].pos > 1
       /\ \E u \in bucket : u.data = saves[id].photos[1]

InFlight(i) == subs[i].stage # "done"

\* C30: a submission that has ended left sending = false and a message: the
\* submitted message when the Flow answered ok, a failure message when it
\* answered not ok or the request threw; and while a submission is in flight
\* the button is disabled and no other submission is in flight.
C30_SubmissionEnds ==
  /\ \A i \in 1..Len(subs) :
       subs[i].stage = "done" =>
         /\ subs[i].left.sending = FALSE
         /\ subs[i].left.msg # None
         /\ subs[i].flow = "ok" => ValueOf(subs[i].left.msg).kind = "submitted"
         /\ subs[i].flow \in {"notok", "threw"} =>
              ValueOf(subs[i].left.msg).kind = "failed"
  /\ \A i \in 1..Len(subs) :
       InFlight(i) => sending /\ \A j \in 1..Len(subs) : InFlight(j) => j = i
====
